---- MODULE Spec2Model ----
(***************************************************************************)
(* Petmail: the invitation (pairing) protocol of invitation.py, the        *)
(* observable database of database.py and the channel messaging layer of   *)
(* mailbox/channel.py, as one state machine.                               *)
(*                                                                         *)
(* Byte strings are modelled symbolically.  Keys and nonces are positive   *)
(* integers; a hex string is the one-element sequence <<raw>>; a JSON      *)
(* string is the one-element sequence <<value>>; "" / NULL is <<>> for a   *)
(* string column and 0 for an integer column.  A ciphertext or a signed    *)
(* message is a record naming the key that made it, so that opening or     *)
(* verifying succeeds exactly when the right key is presented.             *)
(***************************************************************************)
EXTENDS Integers, Sequences, FiniteSets, TLC

----------------------------------------------------------------------------
(* Bounds of the model *)

\* number of msgC the nodes build in all
MaxMsgs == 3
\* number of observer calls of a node after which it starts no new work
MaxNotices == 12
\* number of msgC built where altered copies of them are delivered as well
MaxForged == 2
\* number of messages on the rendezvous that no Invitation sent
MaxHostile == 2
\* number of random values a node draws for one invitation before it stops
\* polling
MaxDrawn == 7
\* number of msgA one mailbox server handles
MaxMsgA == 3

Nodes == {1, 2}
\* the invitation codes the users type
Codes == {1, 2}
\* the code used where deliveries are arbitrary parts of what was posted
OneCode == {1}
Payloads == {1, 2}

Peer(n) == 3 - n

Max(S) == CHOOSE x \in S : \A y \in S : y <= x

\* the element of a one-element set
The(S) == CHOOSE x \in S : TRUE

\* the concatenation of a sequence of sequences (nested for loops)
RECURSIVE Flatten(_)
Flatten(ss) == IF ss = <<>> THEN <<>> ELSE Head(ss) \o Flatten(Tail(ss))

----------------------------------------------------------------------------
(* Symbolic cryptography and encodings *)

\* str.encode("hex") / nacl HexEncoder
Hex(raw) == <<raw>>
\* str.decode("hex")
UnHex(s) == s[1]
\* json.dumps / json.loads
JsonDumps(v) == <<v>>
JsonLoads(s) == s[1]

\* nacl PrivateKey(k).public_key
PublicKey(priv) == priv + 10000
\* nacl SigningKey(k).verify_key
VerifyKey(sk) == sk + 20000

\* the precomputed shared key of nacl Box(priv, pub): Box(a, pub(b)) and
\* Box(b, pub(a)) open each other's ciphertexts
Box(priv, pub) == {PublicKey(priv), pub}

\* stretch(code): deterministic key derivation from the invitation code
stretch(code) == 9000 + code

\* os.urandom / PrivateKey.generate / SigningKey.generate: the i-th random
\* value drawn by node n while working on the invitation for `code`; values
\* never repeat
Fresh(n, code, i) == n * 1000 + code * 100 + i

\* the petname the user of node n types for the invitation with `code`
Petname(n, code) == n * 10 + code
\* the transport record the user of node n offers
Transports(n) == IF n = 1 THEN <<1>> ELSE <<n, n + 2>>

----------------------------------------------------------------------------
(* Wire messages of the invitation protocol *)

NoInner == [p2 |-> "", verf |-> 0, signer |-> 0, c1 |-> 0, c2 |-> 0,
            crec |-> <<>>]

\* body "i0:m1:" + pub
BodyM1(pub) ==
    [p |-> "i0:m1:", key |-> pub, box |-> {}, inner |-> NoInner,
     tail |-> 0, ack |-> FALSE]

\* body "i0:m2:" + Box(b).encrypt("i0:m2a:" + verfkey + sign(signedBody))
BodyM2(b, verf, signer, c1, c2, crec, nonce) ==
    [p |-> "i0:m2:", key |-> 0, box |-> b,
     inner |-> [p2 |-> "i0:m2a:", verf |-> verf, signer |-> signer,
                c1 |-> c1, c2 |-> c2, crec |-> crec],
     tail |-> nonce, ack |-> FALSE]

\* body "i0:m3:" + "ACK-" + nonce
BodyM3(nonce) ==
    [p |-> "i0:m3:", key |-> 0, box |-> {}, inner |-> NoInner,
     tail |-> nonce, ack |-> TRUE]

\* body "i0:destroy:" + nonce
BodyDestroy(nonce) ==
    [p |-> "i0:destroy:", key |-> 0, box |-> {}, inner |-> NoInner,
     tail |-> nonce, ack |-> FALSE]

\* "r0:%s" % inviteKey.sign(msg).encode("hex")
SignedFrame(inviteKey, body) ==
    [hexok |-> TRUE, sig |-> inviteKey, body |-> body]

\* VALID_MESSAGE = ^r0:[0-9a-f]+$
VALID_MESSAGE(m) == m.hexok

----------------------------------------------------------------------------
(* ObservableDatabase: one sqlite connection per node.  conn is what the   *)
(* connection sees (committed or not), disk is what has been committed,    *)
(* pending is pending_notifications, observers the observers of each      *)
(* table in subscription order, and eventual the calls that commit handed  *)
(* to eventually() and that have not run yet.                              *)

NoTables == [invitations |-> {}, addressbook |-> {}]
NoObservers == [invitations |-> <<>>, addressbook |-> <<>>]
NewStore ==
    [conn |-> NoTables, disk |-> NoTables, pending |-> <<>>,
     observers |-> NoObservers, eventual |-> <<>>]

\* Notice namedtuple; new_value is {row}, or {} for None
Notice(table, action, id, new_value) ==
    [table |-> table, action |-> action, id |-> id, new_value |-> new_value]

\* SELECT * FROM table WHERE id=?  (fetchone: {row}, or {} for None)
SelectById(rows, id) == {r \in rows : r.id = id}

\* cursor.lastrowid of an INSERT into a table with an integer primary key
lastrowid(rows) == IF rows = {} THEN 1 ELSE Max({r.id : r \in rows}) + 1

\* ObservableDatabase.subscribe / unsubscribe
db_subscribe(s, table, observer) ==
    [s EXCEPT !.observers[table] = Append(@, observer)]

db_unsubscribe(s, table, observer) ==
    LET obs == s.observers[table]
        i == CHOOSE k \in DOMAIN obs :
                 obs[k] = observer /\ \A j \in 1..(k - 1) : obs[j] # observer
    IN  [s EXCEPT !.observers[table] =
            SubSeq(obs, 1, i - 1) \o SubSeq(obs, i + 1, Len(obs))]

\* eventually(o, event) for every observer of the event's table; committed
\* tells whether the connection had no uncommitted write at that moment
eventually(s, event) ==
    [k \in DOMAIN s.observers[event.table] |->
        [o |-> s.observers[event.table][k], event |-> event,
         committed |-> s.disk = s.conn]]

\* an insert that calls the observers of the table at once
db_insert_notifying(s, table, row) ==
    LET s1 == [s EXCEPT !.conn[table] = @ \cup {row}]
    IN  [s1 EXCEPT !.eventual =
            @ \o eventually(s1, Notice(table, "insert", row.id, {row}))]

db_insert(s, table, row) ==
    [s EXCEPT !.conn[table] = @ \cup {row},
              !.pending = Append(@, Notice(table, "insert", row.id, {row}))]

\* the row r with the columns named in `new` set to their new values
SetColumns(r, new) ==
    [k \in DOMAIN r |-> IF k \in DOMAIN new THEN new[k] ELSE r[k]]

db_update(s, table, id, new) ==
    LET rows == {IF r.id = id THEN SetColumns(r, new) ELSE r
                 : r \in s.conn[table]}
    IN  [s EXCEPT !.conn[table] = rows,
                  !.pending = Append(@, Notice(table, "update", id,
                                               SelectById(rows, id)))]

db_delete(s, table, id) ==
    [s EXCEPT !.conn[table] = {r \in @ : r.id # id},
              !.pending = Append(@, Notice(table, "delete", id, {}))]

\* a commit that leaves pending_notifications as it was
db_commit_keeping(s) ==
    LET s1 == [s EXCEPT !.disk = s.conn]
    IN  [s1 EXCEPT !.eventual =
            @ \o Flatten([i \in DOMAIN s1.pending |->
                              eventually(s1, s1.pending[i])])]

db_commit(s) ==
    LET s1 == [s EXCEPT !.disk = s.conn]
    IN  [s1 EXCEPT !.eventual =
                       @ \o Flatten([i \in DOMAIN s1.pending |->
                                         eventually(s1, s1.pending[i])]),
                   !.pending = <<>>]

\* sqlite3 connection.commit(), as channel.py calls it on the raw connection
conn_commit(s) ==
    [s EXCEPT !.disk = s.conn]

----------------------------------------------------------------------------
(* class Invitation: an object that lives for one call.  The context c     *)
(* carries the object's fields (self), the node's store (st), the          *)
(* rendezvous subscriptions of the node (subs), the messages handed to     *)
(* sendToAll in order (out), the exception that ended the call (err), the  *)
(* stages whose handler was entered (ran) and the position in the node's   *)
(* random stream for this code (rng).                                      *)

\* Invitation.__init__
Invitation(n, code, iid, st, subs, rng) ==
    LET res == CHOOSE r \in st.conn.invitations : r.id = iid
    IN  [n |-> n, code |-> code, st |-> st, subs |-> subs, rng |-> rng,
         out |-> <<>>, err |-> "", ran |-> <<>>,
         self |-> [iid |-> iid,
                   petname |-> res.petname,
                   inviteID |-> res.inviteID,
                   inviteKey |-> UnHex(res.inviteKey),
                   theirTempPubkey |->
                       IF res.theirTempPubkey # <<>>
                       THEN UnHex(res.theirTempPubkey) ELSE 0,
                   nextExpectedMessage |-> res.nextExpectedMessage,
                   myMessages |-> res.myMessages,
                   theirMessages |-> res.theirMessages]]

\* the row of this invitation as the connection sees it
MyRow(c) == CHOOSE r \in c.st.conn.invitations : r.id = c.self.iid

getAddressbookID(c) == MyRow(c).addressbook_id
getMyTempPrivkey(c) == UnHex(MyRow(c).myTempPrivkey)
getMySigningKey(c) == UnHex(MyRow(c).mySigningKey)
getMyPublicChannelRecord(c) == MyRow(c).my_channel_record
getMyPrivateChannelData(c) == JsonLoads(MyRow(c).my_private_channel_data)

\* os.urandom(...) inside a handler
urandom(c) == Fresh(c.n, c.code, c.rng)
drawn(c) == [c EXCEPT !.rng = @ + 1]

\* whether the committed row of this invitation already lists m
Durable(c, m) ==
    \E r \in c.st.disk.invitations : r.id = c.self.iid /\ m \in r.myMessages

\* InvitationManager.sendToAll
sendToAll(c, m) ==
    [c EXCEPT !.out = Append(@, [m |-> m, durable |-> Durable(c, m)])]

\* Invitation.send
send(c, body, persist) ==
    The({sendToAll(IF persist
                   THEN [c EXCEPT !.self.myMessages = @ \cup {signed}]
                   ELSE c, signed)
         : signed \in {SignedFrame(c.self.inviteKey, body)}})

raise(c, e) == [c EXCEPT !.err = e]

\* sendFirstMessage without the UPDATE of myMessages
sendFirstMessage_unsaved(c) ==
    send(c, BodyM1(PublicKey(getMyTempPrivkey(c))), TRUE)

\* Invitation.sendFirstMessage
sendFirstMessage(c) ==
    LET pub == PublicKey(getMyTempPrivkey(c))
        persist(c1) ==
            [c1 EXCEPT !.st = db_update(@, "invitations", c.self.iid,
                                [myMessages |-> c1.self.myMessages])]
    IN  The({persist(c1) : c1 \in {send(c, BodyM1(pub), TRUE)}})

\* Invitation.processM1
processM1(c, msg) ==
    LET their == msg.key
        stored == [c EXCEPT !.self.theirTempPubkey = their,
                            !.st = db_update(@, "invitations", c.self.iid,
                                       [theirTempPubkey |-> Hex(their)])]
        reply(c1) ==
            LET my_privkey == getMyTempPrivkey(c1)
                my_channel_record == getMyPublicChannelRecord(c1)
                my_sign == getMySigningKey(c1)
                msg2 == BodyM2(Box(my_privkey, their), VerifyKey(my_sign),
                               my_sign, their, PublicKey(my_privkey),
                               my_channel_record, urandom(c1))
                c2 == send(drawn(c1), msg2, TRUE)
            IN  [c2 EXCEPT !.self.nextExpectedMessage = 2,
                           !.ran = Append(@, 1)]
    IN  The({reply(c1) : c1 \in {stored}})

\* the row with the node's own verify key stored as the peer's
NewAddressbookRow_ownkey(id, petname, me, them, theirVerfkey) ==
    [id |-> id, petname |-> petname, acked |-> 0,
     next_outbound_seqnum |-> 1, my_signkey |-> me.my_signkey,
     their_channel_record_json |-> JsonDumps(them),
     my_CID_key |-> me.my_CID_key, next_CID_token |-> 0,
     highest_inbound_seqnum |-> 0,
     my_old_channel_privkey |-> me.my_old_channel_privkey,
     my_new_channel_privkey |-> me.my_new_channel_privkey,
     they_used_new_channel_key |-> 0,
     their_verfkey |-> Hex(VerifyKey(UnHex(me.my_signkey)))]

\* the addressbook row processM2 inserts
NewAddressbookRow(id, petname, me, them, theirVerfkey) ==
    [id |-> id, petname |-> petname, acked |-> 0,
     next_outbound_seqnum |-> 1, my_signkey |-> me.my_signkey,
     their_channel_record_json |-> JsonDumps(them),
     my_CID_key |-> me.my_CID_key, next_CID_token |-> 0,
     highest_inbound_seqnum |-> 0,
     my_old_channel_privkey |-> me.my_old_channel_privkey,
     my_new_channel_privkey |-> me.my_new_channel_privkey,
     they_used_new_channel_key |-> 0,
     their_verfkey |-> Hex(theirVerfkey)]

\* Invitation.processM2
processM2(c, msg) ==
    LET my_privkey == getMyTempPrivkey(c)
        in == msg.inner
    IN
    IF c.self.theirTempPubkey = 0 THEN raise(c, "AssertionError")
    ELSE IF msg.box # Box(my_privkey, c.self.theirTempPubkey)
    THEN raise(c, "CryptoError")
    ELSE IF in.p2 # "i0:m2a:" THEN raise(c, "ValueError")
    ELSE IF VerifyKey(in.signer) # in.verf THEN raise(c, "BadSignatureError")
    ELSE IF in.c1 # PublicKey(my_privkey) THEN raise(c, "ValueError")
    ELSE IF in.c2 # c.self.theirTempPubkey THEN raise(c, "ValueError")
    ELSE
    LET them == JsonLoads(in.crec)
        me == getMyPrivateChannelData(c)
        addressbook_id == lastrowid(c.st.conn.addressbook)
        st1 == db_insert(c.st, "addressbook",
                 NewAddressbookRow(addressbook_id, c.self.petname, me, them,
                                   in.verf))
        st2 == db_update(st1, "invitations", c.self.iid,
                 [addressbook_id |-> addressbook_id])
        reply(c1) ==
            LET c2 == send(drawn(c1), BodyM3(urandom(c1)), TRUE)
            IN  [c2 EXCEPT !.self.nextExpectedMessage = 3,
                           !.ran = Append(@, 2)]
    IN  The({reply(c1) : c1 \in {[c EXCEPT !.st = st2]}})

\* Invitation.processM3
processM3(c, msg) ==
    IF ~msg.ack THEN raise(c, "ValueError")
    ELSE
    LET cid == getAddressbookID(c)
        st1 == db_update(c.st, "addressbook", cid,
                 [acked |-> 1])
        st2 == db_delete(st1, "invitations", c.self.iid)
        destroy(c1) ==
            LET c2 == send(drawn(c1), BodyDestroy(urandom(c1)), FALSE)
            IN  [c2 EXCEPT !.subs = @ \ {c.self.inviteID},
                           !.ran = Append(@, 3)]
    IN  The({destroy(c1) : c1 \in {[c EXCEPT !.st = st2]}})

\* for m in self.myMessages - messages: self.manager.sendToAll(...)
RECURSIVE sendEach(_, _)
\* nothing is sent again
sendEach_none(c, S) == c

sendEach(c, S) ==
    IF S = {} THEN c
    ELSE LET m == CHOOSE x \in S : TRUE
         IN  sendEach(sendToAll(c, m), S \ {m})

\* the difference without the node's own messages taken out
newMessages_own(messages, myMessages, theirMessages) ==
    messages \ theirMessages

\* newMessages = messages - self.myMessages - self.theirMessages
newMessages(messages, myMessages, theirMessages) ==
    (messages \ myMessages) \ theirMessages

\* the framing and signature check of one new message
validMessage(c, m) ==
    VALID_MESSAGE(m) /\ VerifyKey(m.sig) = VerifyKey(c.self.inviteKey)

\* bodies: the verified bodies of the new messages
bodiesOf(new) == {m.body : m \in new}

NoBody == BodyDestroy(0)

\* the bodies findPrefixAndCall may meet first for a prefix (iteration order
\* of a Python set is not fixed by the program)
Candidates(bodies, prefix) == {b \in bodies : b.p = prefix}
Choices(bodies, prefix) ==
    IF Candidates(bodies, prefix) = {} THEN {NoBody}
    ELSE Candidates(bodies, prefix)
Picks(bodies) ==
    [m1 : Choices(bodies, "i0:m1:"), m2 : Choices(bodies, "i0:m2:"),
     m3 : Choices(bodies, "i0:m3:")]

\* whatever method was passed, processM1 is called
callHandler_M1(c, handler, msg) == processM1(c, msg)

\* handler(msg[len(prefix):]) for the bound method that was passed
callHandler(c, handler, msg) ==
    CASE handler = "processM1" -> processM1(c, msg)
      [] handler = "processM2" -> processM2(c, msg)
      [] handler = "processM3" -> processM3(c, msg)

\* Invitation.findPrefixAndCall, with the first matching body given
findPrefixAndCall(c, prefix, bodies, first, handler) ==
    IF Candidates(bodies, prefix) # {}
    THEN callHandler(c, handler, first)
    ELSE c

\* the final UPDATE storing 1 as nextExpectedMessage
updateAndCommit_reset(c, new) ==
    [c EXCEPT !.st = db_commit(db_update(c.st, "invitations", c.self.iid,
                         [myMessages |-> c.self.myMessages,
                          theirMessages |-> c.self.theirMessages \cup new,
                          nextExpectedMessage |-> 1]))]

\* the final UPDATE of processMessages and its commit
updateAndCommit(c, new) ==
    LET st1 == db_update(c.st, "invitations", c.self.iid,
                 [myMessages |-> c.self.myMessages,
                  theirMessages |-> c.self.theirMessages \cup new,
                  nextExpectedMessage |-> c.self.nextExpectedMessage])
    IN  [c EXCEPT !.st = db_commit(st1)]

\* processMessages with "elif" between the stages: one handler per call
processMessages_elif(c, messages, pick) ==
    LET new == newMessages(messages, c.self.myMessages, c.self.theirMessages)
        bodies == bodiesOf(new)
        resend(c0) == sendEach(c0, c0.self.myMessages \ messages)
        stage(c1) ==
            IF c1.self.nextExpectedMessage = 1
            THEN findPrefixAndCall(c1, "i0:m1:", bodies, pick.m1, "processM1")
            ELSE IF c1.self.nextExpectedMessage = 2
            THEN findPrefixAndCall(c1, "i0:m2:", bodies, pick.m2, "processM2")
            ELSE IF c1.self.nextExpectedMessage = 3
            THEN findPrefixAndCall(c1, "i0:m3:", bodies, pick.m3, "processM3")
            ELSE c1
        finish(c4) == IF c4.err # "" THEN c4 ELSE updateAndCommit(c4, new)
    IN  IF \E m \in new : ~validMessage(c, m)
        THEN raise(resend(c), "AttributeError")
        ELSE The({finish(c4) : c4 \in {stage(c1) : c1 \in {resend(c)}}})

\* Invitation.processMessages
processMessages(c, messages, pick) ==
    LET new == newMessages(messages, c.self.myMessages, c.self.theirMessages)
        bodies == bodiesOf(new)
        resend(c0) == sendEach(c0, c0.self.myMessages \ messages)
        stage1(c1) ==
            IF c1.self.nextExpectedMessage = 1
            THEN findPrefixAndCall(c1, "i0:m1:", bodies, pick.m1, "processM1")
            ELSE c1
        \* no elif: nextExpectedMessage may have incremented
        stage2(c2) ==
            IF c2.err = "" /\ c2.self.nextExpectedMessage = 2
            THEN findPrefixAndCall(c2, "i0:m2:", bodies, pick.m2, "processM2")
            ELSE c2
        stage3(c3) ==
            IF c3.err = "" /\ c3.self.nextExpectedMessage = 3
            THEN findPrefixAndCall(c3, "i0:m3:", bodies, pick.m3, "processM3")
            ELSE c3
        finish(c4) == IF c4.err # "" THEN c4 ELSE updateAndCommit(c4, new)
    IN  IF \E m \in new : ~validMessage(c, m)
        THEN \* self.unsubscribe does not exist on Invitation
             raise(resend(c), "AttributeError")
        ELSE \* each statement works on the result of the one before it
             The({finish(c4) : c4 \in
                 {stage3(c3) : c3 \in
                     {stage2(c2) : c2 \in
                         {stage1(c1) : c1 \in {resend(c)}}}}})

----------------------------------------------------------------------------
(* class InvitationManager *)

\* inviteKey.verify_key.encode(Hex)
InviteID(code) == Hex(VerifyKey(stretch(code)))
InviteIDs == {InviteID(code) : code \in Codes}
CodeOf(inviteID) == CHOOSE code \in Codes : InviteID(code) = inviteID

\* the context of a call that has no Invitation object (yet)
NoSelf == [iid |-> 0, petname |-> 0, inviteID |-> <<>>, inviteKey |-> 0,
           theirTempPubkey |-> 0, nextExpectedMessage |-> 0,
           myMessages |-> {}, theirMessages |-> {}]
Bare(n, code, st, subs, rng) ==
    [n |-> n, code |-> code, st |-> st, subs |-> subs, rng |-> rng,
     out |-> <<>>, err |-> "", ran |-> <<>>, self |-> NoSelf]

\* the row startInvitation inserts
NewInvitationRow(iid, n, code, petname, transports, rng) ==
    LET stretched == stretch(code)
        mySigningKey == Fresh(n, code, rng)
        myCIDkey == Fresh(n, code, rng + 1)
        myTempPrivkey == Fresh(n, code, rng + 2)
        channel_key == Fresh(n, code, rng + 3)
        pub_crec == [channel_pubkey |-> Hex(PublicKey(channel_key)),
                     CID_key |-> Hex(myCIDkey),
                     transports |-> transports]
        priv_data == [my_signkey |-> Hex(mySigningKey),
                      my_CID_key |-> Hex(myCIDkey),
                      my_old_channel_privkey |-> Hex(channel_key),
                      my_new_channel_privkey |-> Hex(channel_key)]
    IN  [id |-> iid, code |-> Hex(code), petname |-> petname,
         inviteKey |-> Hex(stretched), inviteID |-> InviteID(code),
         myTempPrivkey |-> Hex(myTempPrivkey),
         mySigningKey |-> Hex(mySigningKey),
         my_channel_record |-> JsonDumps(pub_crec),
         my_private_channel_data |-> JsonDumps(priv_data),
         myMessages |-> {}, theirMessages |-> {}, nextExpectedMessage |-> 1,
         theirTempPubkey |-> <<>>, addressbook_id |-> 0]

\* the check made against the code column instead of inviteID
codeInUse_code(inviteID, st) ==
    inviteID \in {r.code : r \in st.conn.invitations}

\* startInvitation: the inviteID is that of a pending invitation
codeInUse(inviteID, st) ==
    inviteID \in {r.inviteID : r \in st.conn.invitations}

\* InvitationManager.startInvitation
startInvitation(n, code, petname, transports, st, subs, rng) ==
    LET c0 == Bare(n, code, st, subs, rng)
        inviteID == InviteID(code)
    IN
    IF codeInUse(inviteID, st)
    THEN raise(c0, "CommandError")
    ELSE
    LET iid == lastrowid(st.conn.invitations)
        st1 == db_insert(st, "invitations",
                 NewInvitationRow(iid, n, code, petname, transports, rng))
        first(i) == [sendFirstMessage(i) EXCEPT !.st = db_commit(@)]
    IN  The({first(i) : i \in
                {Invitation(n, code, iid, st1, subs \cup {inviteID}, rng + 4)}})

\* InvitationManager.messagesReceived
messagesReceived(n, inviteID, messages, pick, st, subs, rng) ==
    LET rows == {r \in st.conn.invitations : r.inviteID = inviteID}
    IN
    IF rows = {}
    THEN raise(Bare(n, CodeOf(inviteID), st, subs, rng), "KeyError")
    ELSE
    LET iid == (CHOOSE r \in rows : \A q \in rows : r.id <= q.id).id
        run(i) == processMessages(i, messages, pick)
    IN  The({run(i) : i \in
                {Invitation(n, CodeOf(inviteID), iid, st, subs, rng)}})

\* the bodies a call of messagesReceived would treat as new
newBodies(inviteID, messages, st) ==
    LET rows == {r \in st.conn.invitations : r.inviteID = inviteID}
    IN  UNION {bodiesOf(newMessages(messages, r.myMessages, r.theirMessages))
               : r \in rows}

----------------------------------------------------------------------------
(* mailbox/channel.py: the channel messaging layer *)

\* hashlib.sha256(x).digest()
sha256(x) == <<"sha256", x>>

\* build_CIDToken: HKDF(IKM=CIDKey+seqnum_s, info="petmail.org/v1/CIDToken")
build_CIDToken(CIDKey, seqnum) == <<"CIDToken", CIDKey, seqnum>>

\* PrivateKey.generate() and the two os.urandom nonces of one createMsgC:
\* fresh for every message of every addressbook row of every node
generate2(n, cid, seqnum) == n * 1000 + cid * 100 + 50 + seqnum

\* my_signkey.sign("ce0:" + pubkey2)
SignWithPrefix(signkey, prefix, m) ==
    [signer |-> signkey, prefix |-> prefix, m |-> m]

\* the rows of a table in primary-key order
RECURSIVE RowSeq(_)
RowSeq(rows) ==
    IF rows = {} THEN <<>>
    ELSE LET r == CHOOSE x \in rows : \A y \in rows : x.id <= y.id
         IN  <<r>> \o RowSeq(rows \ {r})

\* the UPDATE writing back the value it read
reserve_seqnum_same(st, cid, next_outbound_seqnum) ==
    conn_commit([st EXCEPT !.conn.addressbook =
        {IF r.id = cid
         THEN [r EXCEPT !.next_outbound_seqnum = next_outbound_seqnum]
         ELSE r : r \in @}])

\* the UPDATE of next_outbound_seqnum without its WHERE id=?
reserve_seqnum_all(st, cid, next_outbound_seqnum) ==
    conn_commit([st EXCEPT !.conn.addressbook =
        {[r EXCEPT !.next_outbound_seqnum = next_outbound_seqnum + 1]
         : r \in @}])

\* the UPDATE of next_outbound_seqnum left uncommitted
reserve_seqnum_uncommitted(st, cid, next_outbound_seqnum) ==
    [st EXCEPT !.conn.addressbook =
        {IF r.id = cid
         THEN [r EXCEPT !.next_outbound_seqnum = next_outbound_seqnum + 1]
         ELSE r : r \in @}]

\* createMsgC: UPDATE addressbook SET next_outbound_seqnum=? and commit
reserve_seqnum(st, cid, next_outbound_seqnum) ==
    conn_commit([st EXCEPT !.conn.addressbook =
        {IF r.id = cid
         THEN [r EXCEPT !.next_outbound_seqnum = next_outbound_seqnum + 1]
         ELSE r : r \in @}])

\* OutboundChannel.createMsgC; yields the store and the msgC (or the error)
createMsgC(n, st, cid, payload) ==
    LET found == SelectById(st.conn.addressbook, cid) IN
    IF found = {}
    THEN [st |-> st, err |-> "AssertionError", msgC |-> <<>>]
    ELSE
    LET res == CHOOSE r \in found : TRUE
        next_outbound_seqnum == res.next_outbound_seqnum
        st1 == reserve_seqnum(st, cid, next_outbound_seqnum)
        my_signkey == UnHex(res.my_signkey)
        privkey2 == generate2(n, cid, next_outbound_seqnum)
        pubkey2 == PublicKey(privkey2)
        crec == JsonLoads(res.their_channel_record_json)
        channel_pubkey == UnHex(crec.channel_pubkey)
        CIDKey == UnHex(crec.CID_key)
        msgE == [seqnum |-> next_outbound_seqnum,
                 ns |-> SignWithPrefix(my_signkey, "ce0:", pubkey2),
                 payload |-> JsonDumps(payload)]
        msgD == [pubkey2 |-> pubkey2, box |-> Box(privkey2, channel_pubkey),
                 msgE |-> msgE, nonce |-> privkey2]
        HmsgD == sha256(msgD)
        CIDToken == build_CIDToken(CIDKey, next_outbound_seqnum)
        CIDBox == [key |-> CIDKey, seqnum |-> next_outbound_seqnum,
                   HmsgD |-> HmsgD, channel_pubkey |-> channel_pubkey,
                   nonce |-> privkey2]
    IN  [st |-> st1, err |-> "",
         msgC |-> <<[prefix |-> "c0:", CIDToken |-> CIDToken,
                     CIDBox |-> CIDBox, msgD |-> msgD]>>]

\* send that hands msgC to the first declared transport only
OutboundChannel_send_first(n, st, cid, payload) ==
    LET made == createMsgC(n, st, cid, payload)
        crec == JsonLoads((CHOOSE r \in st.conn.addressbook :
                              r.id = cid).their_channel_record_json)
    IN  [st |-> made.st, err |-> made.err, msgC |-> made.msgC,
         handed |-> [k \in DOMAIN crec.transports \cap {1} |->
                        [t |-> crec.transports[k], msgC |-> made.msgC]]]

\* OutboundChannel.send: one createMsgC, then t.send(msgC) for every
\* transport of createTransports (the peer's crec["transports"]), in order
OutboundChannel_send(n, st, cid, payload) ==
    LET made == createMsgC(n, st, cid, payload)
        crec == JsonLoads((CHOOSE r \in st.conn.addressbook :
                              r.id = cid).their_channel_record_json)
    IN  [st |-> made.st, err |-> made.err, msgC |-> made.msgC,
         handed |-> [k \in DOMAIN crec.transports |->
                        [t |-> crec.transports[k], msgC |-> made.msgC]]]

\* every key opens every CIDBox
opens_CIDBox_any(CIDKey, CIDBox) == TRUE

\* decrypt_CIDBox succeeds (no CryptoError) under this key
opens_CIDBox(CIDKey, CIDBox) == CIDBox.key = CIDKey

\* find_channel_from_CIDToken: not implemented, (None, None)
find_channel_from_CIDToken(st, CIDToken) == [cid |-> 0, pubkey |-> 0,
                                             err |-> ""]

\* find_channel_from_CIDBox
find_channel_from_CIDBox(st, CIDBox) ==
    LET rows == RowSeq(st.conn.addressbook)
        hits == {i \in DOMAIN rows :
                    opens_CIDBox(UnHex(rows[i].my_CID_key), CIDBox)}
    IN  IF hits = {} THEN [cid |-> 0, pubkey |-> 0, err |-> ""]
        ELSE LET row == rows[CHOOSE i \in hits : \A j \in hits : i <= j]
             IN  IF CIDBox.seqnum <= row.highest_inbound_seqnum
                 THEN [cid |-> 0, pubkey |-> 0, err |-> "ReplayError"]
                 ELSE [cid |-> row.id, pubkey |-> CIDBox.channel_pubkey,
                       err |-> ""]

\* the two candidates build_channel_keylist yields for one row, in order
KeysOfRow(row) ==
    << [privkey |-> UnHex(row.my_old_channel_privkey), cid |-> row.id,
        which |-> "old",
        pubkey |-> PublicKey(UnHex(row.my_old_channel_privkey))],
       [privkey |-> UnHex(row.my_new_channel_privkey), cid |-> row.id,
        which |-> "new",
        pubkey |-> PublicKey(UnHex(row.my_new_channel_privkey))] >>

\* build_channel_keylist
build_channel_keylist(st, known_cid) ==
    LET rows == IF known_cid # 0
                THEN RowSeq(SelectById(st.conn.addressbook, known_cid))
                ELSE RowSeq(st.conn.addressbook)
    IN  Flatten([i \in DOMAIN rows |-> KeysOfRow(rows[i])])

\* the filter comparing the private key itself with the hinted public key
filter_on_known_channel_pubkey_priv(keylist, known_channel_pubkey_s) ==
    SelectSeq(keylist, LAMBDA k : k.privkey = known_channel_pubkey_s)

\* filter_on_known_channel_pubkey
filter_on_known_channel_pubkey(keylist, known_channel_pubkey_s) ==
    SelectSeq(keylist, LAMBDA k : PublicKey(k.privkey) = known_channel_pubkey_s)

\* find_channel_list
find_channel_list(st, CIDToken, CIDBox) ==
    LET t == find_channel_from_CIDToken(st, CIDToken)
        h == IF t.cid = 0 THEN find_channel_from_CIDBox(st, CIDBox) ELSE t
        keylist == build_channel_keylist(st, h.cid)
    IN  [err |-> h.err,
         keylist |-> IF h.pubkey # 0
                     THEN filter_on_known_channel_pubkey(keylist, h.pubkey)
                     ELSE keylist]

\* the first candidate is taken without trying to open the box
decrypt_msgD_first(msgD, keylist) ==
    IF keylist = <<>> THEN 0 ELSE 1

\* decrypt_msgD: the index of the first candidate that opens msgD, or 0
decrypt_msgD(msgD, keylist) ==
    LET ok == {i \in DOMAIN keylist :
                  Box(keylist[i].privkey, msgD.pubkey2) = msgD.box}
    IN  IF ok = {} THEN 0 ELSE CHOOSE i \in ok : \A j \in ok : i <= j

\* check_msgE: "" when the message passes, else the exception
check_msgE(msgE, pubkey2_s, sender_verfkey_s, highest_seqnum) ==
    IF msgE.seqnum <= highest_seqnum THEN "ReplayError"
    ELSE IF VerifyKey(msgE.ns.signer) # sender_verfkey_s THEN "CryptoError"
    ELSE IF msgE.ns.prefix # "ce0:" THEN "BadSignatureError"
    ELSE IF msgE.ns.m # pubkey2_s
    THEN \* print repr(m), pubkey2_s(m): calling a str
         "TypeError"
    ELSE ""

\* validate_msgC finding nothing wrong
validate_msgC_none(CIDKey, channel_pubkey, seqnum_from_msgE, CIDBox, CIDToken, msgD) == ""

\* validate_msgC: "" when the message passes, else the exception
validate_msgC(CIDKey, channel_pubkey, seqnum_from_msgE, CIDBox, CIDToken, msgD) ==
    IF ~opens_CIDBox(CIDKey, CIDBox) THEN "CryptoError"
    ELSE IF CIDBox.seqnum # seqnum_from_msgE THEN "ValueError"
    ELSE IF CIDBox.channel_pubkey # channel_pubkey THEN "ValueError"
    ELSE IF CIDBox.HmsgD # sha256(msgD) THEN "ValueError"
    ELSE IF build_CIDToken(CIDKey, seqnum_from_msgE) # CIDToken
    THEN "ValueError"
    ELSE ""

\* the UPDATE left out
record_seqnum_skipped(st, cid, seqnum) == conn_commit(st)

\* the UPDATE without its WHERE clause
record_seqnum_everywhere(st, cid, seqnum) ==
    conn_commit([st EXCEPT !.conn.addressbook =
        {[r EXCEPT !.highest_inbound_seqnum = seqnum] : r \in @}])

\* process_msgC: UPDATE addressbook SET highest_inbound_seqnum=? and commit
record_seqnum(st, cid, seqnum) ==
    conn_commit([st EXCEPT !.conn.addressbook =
        {IF r.id = cid THEN [r EXCEPT !.highest_inbound_seqnum = seqnum]
         ELSE r : r \in @}])

NoReturn == [cid |-> 0, payload |-> 0]
Failed(st, e) == [st |-> st, err |-> e, ret |-> NoReturn]

\* process_msgC; yields the store and (cid, payload), or the exception
process_msgC(st, msgC) ==
    IF msgC.prefix # "c0:" THEN Failed(st, "ValueError")
    ELSE
    LET CIDToken == msgC.CIDToken
        CIDBox == msgC.CIDBox
        msgD == msgC.msgD
        found == find_channel_list(st, CIDToken, CIDBox)
        keylist == found.keylist
        k == decrypt_msgD(msgD, keylist)
    IN
    IF found.err # "" THEN Failed(st, found.err)
    ELSE IF k = 0 THEN Failed(st, "UnknownChannelError")
    ELSE
    LET cid == keylist[k].cid
        channel_pubkey == keylist[k].pubkey
        row == CHOOSE r \in st.conn.addressbook : r.id = cid
        msgE == msgD.msgE
        e1 == check_msgE(msgE, msgD.pubkey2, UnHex(row.their_verfkey),
                         row.highest_inbound_seqnum)
        seqnum == msgE.seqnum
        e2 == validate_msgC(UnHex(row.my_CID_key), channel_pubkey, seqnum,
                            CIDBox, CIDToken, msgD)
    IN
    IF e1 # "" THEN Failed(st, e1)
    ELSE IF e2 # "" THEN Failed(st, e2)
    ELSE [st |-> record_seqnum(st, cid, seqnum),
          err |-> "",
          ret |-> [cid |-> cid, payload |-> JsonLoads(msgE.payload)]]

----------------------------------------------------------------------------
(* mailbox/delivery: msgA, and the mailbox server that unwraps it *)

\* rrid.create() for the mailbox identity t: (tokenid, privkey, token0)
rrid_create(t) ==
    [tokenid |-> t, privkey |-> 30000 + t,
     token0 |-> [id |-> t, key |-> 30000 + t, r |-> 0]]

\* rrid.randomize(token) with the random value r: another token of the
\* same tokenid
rrid_randomize(token, r) == [token EXCEPT !.r = r]

\* rrid.decrypt(privkey, token): the tokenid under the key the token was
\* made for, some other value under any other key
rrid_decrypt(privkey, token) ==
    IF token.key = privkey THEN token.id ELSE 70000 + token.id

\* the mailbox server of node n: its transport key, its TID key and the
\* tokenids registered with it
Mailbox(n) ==
    [privkey |-> 40000 + n, TID_privkey |-> rrid_create(n).privkey,
     tokenids |-> {rrid_create(n).tokenid}]

\* the transport record node n publishes for its local mailbox, and the
\* copy of it with the STID of a token created for nobody's mailbox
TransportRecords(n) ==
    {[transport_pubkey |-> Hex(PublicKey(Mailbox(n).privkey)),
      STID |-> Hex(rrid_randomize(rrid_create(t).token0, 1))] : t \in {n, 0}}

\* createMsgA with the MSTID of the peer's own mailbox whatever the record
createMsgA_known(trec, msgC, privkey1) ==
    [prefix |-> "a0:", pubkey1 |-> PublicKey(privkey1),
     box |-> Box(privkey1, UnHex(trec.transport_pubkey)),
     msgB |-> [MSTID |-> [UnHex(trec.STID) EXCEPT
                             !.id = UnHex(trec.transport_pubkey) - 50000,
                             !.key = UnHex(trec.transport_pubkey) - 20000,
                             !.r = privkey1],
               msgC |-> msgC]]

\* createMsgA; privkey1 is PrivateKey.generate(), also used as the random
\* value of rrid.randomize
createMsgA(trec, msgC, privkey1) ==
    [prefix |-> "a0:", pubkey1 |-> PublicKey(privkey1),
     box |-> Box(privkey1, UnHex(trec.transport_pubkey)),
     msgB |-> [MSTID |-> rrid_randomize(UnHex(trec.STID), privkey1),
               msgC |-> msgC]]

NoMail == [unknowns |-> <<>>, inbox |-> <<>>]

\* handle_msgA of the mailbox server of node n: open msgA, map the MSTID
\* to a tokenid, hand msgC on when the tokenid is registered and signal an
\* unrecognized TID when it is not
handle_msgA(n, mb, msgA) ==
    IF msgA.prefix # "a0:"
       \/ Box(Mailbox(n).privkey, msgA.pubkey1) # msgA.box
    THEN mb
    ELSE IF rrid_decrypt(Mailbox(n).TID_privkey, msgA.msgB.MSTID)
               \in Mailbox(n).tokenids
    THEN [mb EXCEPT !.inbox = Append(@, msgA.msgB.msgC)]
    ELSE [mb EXCEPT !.unknowns = Append(@, msgA.msgB.MSTID)]

----------------------------------------------------------------------------
(* The state *)

VARIABLES
    store,      \* per node: the database (conn, disk, pending, observers)
                \* and the node's eventual queue
    rdv,        \* per inviteID: the messages posted on the rendezvous
    subs,       \* per node: the inviteIDs subscribed at the rendezvous
    rng,        \* per node and code: random values drawn so far
    handled,    \* per node and code: the stages handled in committed calls
    outbox,     \* per node and addressbook id: the payloads given to
                \* createMsgC and the msgC it built, in order
    accepted,   \* per node and addressbook id: the msgC that process_msgC
                \* accepted for that row
    notified,   \* per node: the observer calls made so far, in order
    mailbox,    \* per node: what its mailbox server signalled as unrecognized
                \* and the msgC it handed to the local transport handler
    sending,    \* per node: the calls of OutboundChannel.send so far, each
                \* with its msgC, what every transport was handed, the
                \* transports that reported and whether its Deferred fired
    last        \* the most recent call: what it was given and what it did

vars == <<store, rdv, subs, rng, handled, outbox, accepted, notified, mailbox,
          sending, last>>

NoCall == [op |-> "", n |-> 0, arg |-> 0, err |-> "", out |-> <<>>,
           ran |-> <<>>, batch |-> {}, msgC |-> <<>>, ret |-> NoReturn]

Init ==
    /\ store = [n \in Nodes |-> NewStore]
    /\ rdv = [i \in InviteIDs |-> {}]
    /\ subs = [n \in Nodes |-> {}]
    /\ rng = [n \in Nodes |-> [code \in Codes |-> 0]]
    /\ handled = [n \in Nodes |-> [code \in Codes |-> <<>>]]
    /\ outbox = [n \in Nodes |-> [cid \in Codes |-> <<>>]]
    /\ accepted = [n \in Nodes |-> [cid \in Codes |-> {}]]
    /\ notified = [n \in Nodes |-> <<>>]
    /\ mailbox = [n \in Nodes |-> NoMail]
    /\ sending = [n \in Nodes |-> <<>>]
    /\ last = NoCall

\* the messages a call handed to sendToAll
Sent(c) == {c.out[i].m : i \in DOMAIN c.out}

\* the part of the state the invitation code works on
World ==
    [store |-> store, rdv |-> rdv, subs |-> subs, rng |-> rng,
     handled |-> handled]

\* what a finished Invitation/InvitationManager call leaves behind
After(W, c) ==
    [store |-> [W.store EXCEPT ![c.n] = c.st],
     subs |-> [W.subs EXCEPT ![c.n] = c.subs],
     rng |-> [W.rng EXCEPT ![c.n][c.code] = c.rng],
     rdv |-> [W.rdv EXCEPT ![InviteID(c.code)] = @ \cup Sent(c)],
     handled |-> [W.handled EXCEPT ![c.n][c.code] =
                     IF c.err = "" THEN @ \o c.ran ELSE @]]

Install(c) ==
    \E W \in {After(World, c)} :
        /\ store' = W.store
        /\ subs' = W.subs
        /\ rng' = W.rng
        /\ rdv' = W.rdv
        /\ handled' = W.handled

\* the user of node n runs "invite" with a code; a code is typed again only
\* while its invitation is still pending
StartInvitation(n, code) ==
    /\ \/ rng[n][code] = 0
       \/ InviteID(code) \in {r.inviteID : r \in store[n].conn.invitations}
    /\ \E c \in {startInvitation(n, code, Petname(n, code), Transports(n),
                                   store[n], subs[n], rng[n][code])} :
           /\ Install(c)
           /\ last' = [NoCall EXCEPT !.op = "startInvitation", !.n = n,
                          !.arg = code, !.err = c.err, !.out = c.out]
    /\ UNCHANGED <<outbox, accepted, notified, mailbox, sending>>

\* the rendezvous client of node n delivers a batch for a subscribed inviteID
Receive(n, code, messages) ==
    /\ InviteID(code) \in subs[n]
    /\ \E pick \in Picks(newBodies(InviteID(code), messages, store[n])) :
         \E c \in {messagesReceived(n, InviteID(code), messages, pick,
                                     store[n], subs[n], rng[n][code])} :
             /\ Install(c)
             /\ last' = [NoCall EXCEPT !.op = "messagesReceived", !.n = n,
                            !.arg = code, !.err = c.err, !.out = c.out,
                            !.ran = c.ran, !.batch = messages]
    /\ UNCHANGED <<outbox, accepted, notified, mailbox, sending>>

\* a poll that returns everything posted so far
Poll(n, code) == Receive(n, code, rdv[InviteID(code)])

\* a delivery of any part of what was posted so far
Deliver(n, code) ==
    \E messages \in SUBSET rdv[InviteID(code)] : Receive(n, code, messages)

\* a batch that was in flight when node n unsubscribed arrives afterwards
Late(n, code) ==
    /\ InviteID(code) \notin subs[n]
    /\ rng[n][code] > 0
    /\ \E messages \in {rdv[InviteID(code)]} :
         \E pick \in Picks(newBodies(InviteID(code), messages, store[n])) :
           \E c \in {messagesReceived(n, InviteID(code), messages, pick,
                                       store[n], subs[n], rng[n][code])} :
               /\ Install(c)
               /\ last' = [NoCall EXCEPT !.op = "messagesReceived", !.n = n,
                              !.arg = code, !.err = c.err, !.out = c.out,
                              !.ran = c.ran, !.batch = messages]
    /\ UNCHANGED <<outbox, accepted, notified, mailbox, sending>>

\* an M2 as a peer that does not follow the protocol can build it for the
\* sender of an M1: sealed and signed with the peer's own keys, framed with
\* the invitation key, but naming another key in one of the two bindings
ForgedM2(code) ==
    LET rows == {r \in UNION {store[n].conn.invitations : n \in Nodes} :
                    r.inviteID = InviteID(code)}
        m1s == {m \in rdv[InviteID(code)] : m.body.p = "i0:m1:"}
        mine(r) == PublicKey(UnHex(r.myTempPrivkey))
        forge(r, to, c1, c2) ==
            SignedFrame(stretch(code),
                BodyM2(Box(UnHex(r.myTempPrivkey), to),
                       VerifyKey(UnHex(r.mySigningKey)),
                       UnHex(r.mySigningKey), c1, c2,
                       r.my_channel_record, 0))
    IN  UNION {{forge(x[1], x[2].body.key, PublicKey(0), mine(x[1])),
                forge(x[1], x[2].body.key, x[2].body.key, PublicKey(0))} :
               x \in {y \in rows \X m1s : y[2].body.key # mine(y[1])}}

\* what others than the two Invitations can put on the rendezvous: a message
\* that is not r0: and hex, one not signed with the invitation key, and the
\* M2 with a broken binding
Hostile(code) ==
    {[hexok |-> FALSE, sig |-> stretch(code), body |-> NoBody],
     [hexok |-> TRUE, sig |-> 0, body |-> NoBody]} \cup ForgedM2(code)

\* the messages posted under the inviteID that no Invitation sent
Posted(code) ==
    {m \in rdv[InviteID(code)] :
        \/ ~m.hexok
        \/ m.sig # stretch(code)
        \/ m.body.p = "i0:m2:" /\ m.body.tail = 0}

\* somebody else posts under the inviteID
Post(code, m) ==
    /\ m \in Hostile(code) \ rdv[InviteID(code)]
    /\ Cardinality(Posted(code)) < MaxHostile
    /\ rdv' = [rdv EXCEPT ![InviteID(code)] = @ \cup {m}]
    /\ last' = [NoCall EXCEPT !.op = "post", !.arg = code, !.batch = {m}]
    /\ UNCHANGED <<store, subs, rng, handled, outbox, accepted, notified,
                   mailbox, sending>>

\* the set of all msgC ever built
AllMsgC == UNION {{outbox[n][cid][i].msgC : i \in DOMAIN outbox[n][cid]}
                  : n \in Nodes, cid \in Codes}

RECURSIVE SumOver(_, _)
SumOver(f, D) ==
    IF D = {} THEN 0
    ELSE LET d == CHOOSE x \in D : TRUE IN f[d] + SumOver(f, D \ {d})

\* how many msgC were built so far
Built ==
    SumOver([x \in Nodes \X Codes |-> Len(outbox[x[1]][x[2]])],
            Nodes \X Codes)

\* node n builds a msgC for addressbook row cid
CreateMsgC(n, cid, payload) ==
    /\ Built < MaxMsgs
    /\ \E r \in store[n].conn.addressbook : r.id = cid
    /\ \E res \in {createMsgC(n, store[n], cid, payload)} :
           /\ store' = [store EXCEPT ![n] = res.st]
           /\ outbox' = [outbox EXCEPT ![n][cid] =
                            IF res.err = ""
                            THEN Append(@, [payload |-> payload,
                                            msgC |-> res.msgC[1]])
                            ELSE @]
           /\ last' = [NoCall EXCEPT !.op = "createMsgC", !.n = n,
                          !.arg = cid, !.err = res.err, !.msgC = res.msgC]
    /\ UNCHANGED <<rdv, subs, rng, handled, accepted, notified, mailbox,
                   sending>>

\* node n sends a payload on addressbook row cid
Send(n, cid, payload) ==
    /\ Built < MaxMsgs
    /\ \E r \in store[n].conn.addressbook : r.id = cid
    /\ \E res \in {OutboundChannel_send(n, store[n], cid, payload)} :
           /\ res.err = ""
           /\ store' = [store EXCEPT ![n] = res.st]
           /\ outbox' = [outbox EXCEPT ![n][cid] =
                            Append(@, [payload |-> payload,
                                       msgC |-> res.msgC[1]])]
           /\ sending' = [sending EXCEPT ![n] =
                             Append(@, [cid |-> cid, msgC |-> res.msgC,
                                        handed |-> res.handed,
                                        reported |-> {},
                                        fired |-> res.handed = <<>>])]
           /\ last' = [NoCall EXCEPT !.op = "send", !.n = n, !.arg = cid,
                                     !.msgC = res.msgC]
    /\ UNCHANGED <<rdv, subs, rng, handled, accepted, notified, mailbox>>

\* the Deferred of one t.send fires; the DeferredList of the send fires
\* when the last of them has
Report(n, i, k) ==
    /\ i \in DOMAIN sending[n]
    /\ k \in DOMAIN sending[n][i].handed \ sending[n][i].reported
    /\ sending' = [sending EXCEPT
                      ![n][i].reported = @ \cup {k},
                      ![n][i].fired =
                          (sending[n][i].reported \cup {k}
                              = DOMAIN sending[n][i].handed)]
    /\ last' = [NoCall EXCEPT !.op = "report", !.n = n, !.arg = i]
    /\ UNCHANGED <<store, rdv, subs, rng, handled, outbox, accepted,
                   notified, mailbox>>

\* a msgC reaches node n
ProcessMsgC(n, msgC) ==
    /\ msgC \in AllMsgC
    /\ \E res \in {process_msgC(store[n], msgC)} :
           /\ store' = [store EXCEPT ![n] = res.st]
           /\ accepted' = IF res.err = ""
                          THEN [accepted EXCEPT ![n][res.ret.cid] =
                                   @ \cup {msgC}]
                          ELSE accepted
           /\ last' = [NoCall EXCEPT !.op = "process_msgC", !.n = n,
                          !.err = res.err, !.msgC = <<msgC>>,
                          !.ret = res.ret]
    /\ UNCHANGED <<rdv, subs, rng, handled, outbox, notified, mailbox,
                   sending>>

\* what a relay or the sender can make of a msgC: one part replaced (the
\* sender can recompute the hash of the msgD it changed), or the msgD of
\* another msgC put behind this CIDToken and CIDBox
Alterations(msgC) ==
    LET rehash(m) == [m EXCEPT !.CIDBox.HmsgD = sha256(m.msgD)]
    IN  {[msgC EXCEPT !.prefix = "c1:"],
         [msgC EXCEPT !.CIDToken =
             build_CIDToken(msgC.CIDBox.key, msgC.CIDBox.seqnum + 1)],
         [msgC EXCEPT !.CIDBox.seqnum = @ + 1],
         [msgC EXCEPT !.CIDBox.HmsgD = sha256(<<>>)],
         [msgC EXCEPT !.CIDBox.key = 0],
         [msgC EXCEPT !.CIDBox.channel_pubkey = PublicKey(0)],
         rehash([msgC EXCEPT !.msgD.msgE.seqnum = @ + 1]),
         rehash([msgC EXCEPT !.msgD.msgE.ns.m = PublicKey(0)]),
         rehash([msgC EXCEPT !.msgD.msgE.ns.signer = 0]),
         rehash([msgC EXCEPT !.msgD.pubkey2 = PublicKey(0)])}
        \cup {[msgC EXCEPT !.msgD = other.msgD] : other \in AllMsgC}

\* an altered msgC reaches node n
ProcessForged(n, msgC) ==
    /\ msgC \notin AllMsgC
    /\ \E m \in AllMsgC : msgC \in Alterations(m)
    /\ \E res \in {process_msgC(store[n], msgC)} :
           /\ store' = [store EXCEPT ![n] = res.st]
           /\ accepted' = IF res.err = ""
                          THEN [accepted EXCEPT ![n][res.ret.cid] =
                                   @ \cup {msgC}]
                          ELSE accepted
           /\ last' = [NoCall EXCEPT !.op = "process_msgC", !.n = n,
                          !.err = res.err, !.msgC = <<msgC>>,
                          !.ret = res.ret]
    /\ UNCHANGED <<rdv, subs, rng, handled, outbox, notified, mailbox,
                   sending>>

\* a turn that drops the calls of observers that have unsubscribed since
Turn_subscribed(n) ==
    /\ store[n].eventual # <<>>
    /\ notified' = [notified EXCEPT ![n] =
          @ \o SelectSeq(store[n].eventual,
                   LAMBDA e : \E k \in DOMAIN store[n].observers[e.event.table] :
                                 store[n].observers[e.event.table][k] = e.o)]
    /\ store' = [store EXCEPT ![n].eventual = <<>>]
    /\ last' = [NoCall EXCEPT !.op = "turn", !.n = n]
    /\ UNCHANGED <<rdv, subs, rng, handled, outbox, accepted, mailbox,
                   sending>>

\* a later turn of the reactor of node n: the queued calls run, in order
Turn(n) ==
    /\ store[n].eventual # <<>>
    /\ notified' = [notified EXCEPT ![n] = @ \o store[n].eventual]
    /\ store' = [store EXCEPT ![n].eventual = <<>>]
    /\ last' = [NoCall EXCEPT !.op = "turn", !.n = n]
    /\ UNCHANGED <<rdv, subs, rng, handled, outbox, accepted, mailbox,
                   sending>>

\* a msgA built from a transport record reaches the mailbox server of n
HandleMsgA(n, trec, msgC, privkey1) ==
    /\ Len(mailbox[n].unknowns) + Len(mailbox[n].inbox) < MaxMsgA
    /\ \E msgA \in {createMsgA(trec, msgC, privkey1)} :
           /\ mailbox' = [mailbox EXCEPT ![n] = handle_msgA(n, @, msgA)]
           /\ last' = [NoCall EXCEPT !.op = "handle_msgA", !.n = n,
                          !.arg = UnHex(trec.STID).id, !.batch = {msgA}]
    /\ UNCHANGED <<store, rdv, subs, rng, handled, outbox, accepted,
                   notified, sending>>

----------------------------------------------------------------------------
(* Specifications *)

\* the mailbox servers of the nodes, given msgA for known and unknown tokens
NextMailbox ==
    \E n \in Nodes : \E trec \in TransportRecords(n) :
        \E msgC \in Payloads, privkey1 \in {1, 2} :
            HandleMsgA(n, trec, msgC, privkey1)

SpecMailbox == Init /\ [][NextMailbox]_vars

\* pairing with a rendezvous that returns everything on every poll
NextPoll ==
    \E n \in Nodes, code \in Codes :
        \/ StartInvitation(n, code)
        \/ Poll(n, code)

SpecPoll == Init /\ [][NextPoll]_vars

\* the same, with every node polling again and again
SpecLive ==
    /\ Init /\ [][NextPoll]_vars
    /\ \A n \in Nodes, code \in Codes : WF_vars(Poll(n, code))

\* pairing with a rendezvous that delivers any part of what was posted
Next ==
    \E n \in Nodes, code \in OneCode :
        \/ StartInvitation(n, code)
        \/ Deliver(n, code)

Spec == Init /\ [][Next]_vars

\* pairing over a rendezvous on which others post as well and which may
\* deliver a batch after the node unsubscribed
NextHostile ==
    \/ \E n \in Nodes, code \in OneCode :
           \/ StartInvitation(n, code)
           \/ rng[n][code] < MaxDrawn /\ Poll(n, code)
           \/ Late(n, code)
    \/ \E code \in OneCode : \E m \in Hostile(code) : Post(code, m)

SpecHostile == Init /\ [][NextHostile]_vars

\* pairing in which a peer posts an M2 with a broken binding, while node 1
\* also starts an invitation for another code
NextAbort ==
    \/ \E n \in Nodes : StartInvitation(n, 1)
    \/ StartInvitation(1, 2)
    \/ \E n \in Nodes : rng[n][1] < MaxDrawn /\ Poll(n, 1)
    \/ \E m \in ForgedM2(1) : Post(1, m)

SpecAbort == Init /\ [][NextAbort]_vars

\* an M3 framed with the invitation key whose body does not start with ACK-
BadAck(code) ==
    SignedFrame(stretch(code), [BodyM3(0) EXCEPT !.ack = FALSE])

\* somebody who knows the code posts that M3 under the inviteID
PostBadAck(code) ==
    /\ BadAck(code) \notin rdv[InviteID(code)]
    /\ rdv' = [rdv EXCEPT ![InviteID(code)] = @ \cup {BadAck(code)}]
    /\ last' = [NoCall EXCEPT !.op = "post", !.arg = code,
                              !.batch = {BadAck(code)}]
    /\ UNCHANGED <<store, subs, rng, handled, outbox, accepted, notified,
                   mailbox, sending>>

\* pairing over a rendezvous on which an M3 without ACK- is posted
NextBadAck ==
    \/ \E n \in Nodes : StartInvitation(n, 1)
    \/ \E n \in Nodes : rng[n][1] < MaxDrawn /\ Poll(n, 1)
    \/ PostBadAck(1)

SpecBadAck == Init /\ [][NextBadAck]_vars

\* the store a restarted process opens: the committed tables; the observers,
\* the pending notices and the queued calls were in memory
Restart(s) == [NewStore EXCEPT !.conn = s.disk, !.disk = s.disk]

\* node n dies inside startInvitation or inside messagesReceived, after the
\* k-th sendToAll of the call and before the commit that ends it, and starts
\* again: what was sent stays on the rendezvous, the uncommitted writes are
\* gone, and readyPendingInvitations subscribes the committed invitations
Crash(n, code, k) ==
    /\ \E c \in (IF rng[n][code] = 0
                 THEN {startInvitation(n, code, Petname(n, code),
                                       Transports(n), store[n], subs[n],
                                       rng[n][code])}
                 ELSE {})
                \cup
                (IF InviteID(code) \in subs[n]
                 THEN {messagesReceived(n, InviteID(code),
                                        rdv[InviteID(code)], pick, store[n],
                                        subs[n], rng[n][code])
                       : pick \in Picks(newBodies(InviteID(code),
                                                  rdv[InviteID(code)],
                                                  store[n]))}
                 ELSE {}) :
         /\ k <= Len(c.out)
         /\ store' = [store EXCEPT ![n] = Restart(@)]
         /\ subs' = [subs EXCEPT ![n] =
                        {r.inviteID : r \in store[n].disk.invitations}]
         /\ rng' = [rng EXCEPT ![n][code] = c.rng]
         /\ rdv' = [rdv EXCEPT ![InviteID(code)] =
                       @ \cup {c.out[i].m : i \in 1..k}]
         /\ last' = [NoCall EXCEPT !.op = "crash", !.n = n, !.arg = code,
                        !.out = SubSeq(c.out, 1, k), !.ran = c.ran,
                        !.batch = IF c.ran = <<>> /\ rng[n][code] = 0
                                  THEN {} ELSE rdv[InviteID(code)]]
    /\ UNCHANGED <<handled, outbox, accepted, notified, mailbox, sending>>

\* pairing between nodes that may die and restart inside any call
NextCrash ==
    \E n \in Nodes :
        \/ StartInvitation(n, 1)
        \/ rng[n][1] < MaxDrawn /\ Poll(n, 1)
        \/ \E k \in 0..2 : rng[n][1] < MaxDrawn /\ Crash(n, 1, k)

SpecCrash == Init /\ [][NextCrash]_vars

\* the same, with every node polling again and again
SpecCrashLive ==
    /\ Init /\ [][NextCrash]_vars
    /\ \A n \in Nodes : WF_vars(rng[n][1] < MaxDrawn /\ Poll(n, 1))

\* the observer calls node n has made or has queued
Notices(n) == notified[n] \o store[n].eventual

\* pairing with observers of the tables of node 1, as in Invite.test_one;
\* 1 observes the addressbook (nA_notices.append), 2 observes both tables
ObservedStore ==
    db_subscribe(db_subscribe(db_subscribe(NewStore, "addressbook", 1),
                              "addressbook", 2), "invitations", 2)

InitNotify ==
    /\ store = [n \in Nodes |-> IF n = 1 THEN ObservedStore ELSE NewStore]
    /\ rdv = [i \in InviteIDs |-> {}]
    /\ subs = [n \in Nodes |-> {}]
    /\ rng = [n \in Nodes |-> [code \in Codes |-> 0]]
    /\ handled = [n \in Nodes |-> [code \in Codes |-> <<>>]]
    /\ outbox = [n \in Nodes |-> [cid \in Codes |-> <<>>]]
    /\ accepted = [n \in Nodes |-> [cid \in Codes |-> {}]]
    /\ notified = [n \in Nodes |-> <<>>]
    /\ mailbox = [n \in Nodes |-> NoMail]
    /\ sending = [n \in Nodes |-> <<>>]
    /\ last = NoCall

NextNotify ==
    \/ \E n \in Nodes, code \in OneCode :
           /\ Len(Notices(n)) < MaxNotices
           /\ \/ StartInvitation(n, code)
              \/ Poll(n, code)
    \/ \E n \in Nodes : Turn(n)

SpecNotify == InitNotify /\ [][NextNotify]_vars

\* the application of node n subscribes one more observer to a table:
\* observer 3 when no write is waiting for its commit, observer 4 when one is
Subscribe(n, table) ==
    /\ \E o \in {IF store[n].pending = <<>> THEN 3 ELSE 4} :
          /\ \A k \in DOMAIN store[n].observers[table] :
                store[n].observers[table][k] # o
          /\ store' = [store EXCEPT ![n] = db_subscribe(@, table, o)]
          /\ last' = [NoCall EXCEPT !.op = "subscribe", !.n = n, !.arg = o]
    /\ UNCHANGED <<rdv, subs, rng, handled, outbox, accepted, notified,
                   mailbox, sending>>

\* the application of node n unsubscribes an observer it had subscribed
Unsubscribe(n, table, o) ==
    /\ \E k \in DOMAIN store[n].observers[table] :
          store[n].observers[table][k] = o
    /\ store' = [store EXCEPT ![n] = db_unsubscribe(@, table, o)]
    /\ last' = [NoCall EXCEPT !.op = "unsubscribe", !.n = n, !.arg = o]
    /\ UNCHANGED <<rdv, subs, rng, handled, outbox, accepted, notified,
                   mailbox, sending>>

\* pairing while the application of node 1 subscribes and unsubscribes
\* observers, over a rendezvous on which an M3 without ACK- is posted
NextObservers ==
    \/ \E n \in Nodes :
           /\ 2 * Len(Notices(1)) < MaxNotices
           /\ rng[n][1] < MaxDrawn
           /\ \/ StartInvitation(n, 1)
              \/ Poll(n, 1)
    \/ PostBadAck(1)
    \/ Turn(1)
    \/ Subscribe(1, "addressbook")
    \/ \E o \in {3, 4} : Unsubscribe(1, "addressbook", o)

SpecObservers == InitNotify /\ [][NextObservers]_vars

\* TwoNodeMixin.add_new_channel: both nodes invite with the same code, then
\* poll in turn three times
invite(W, n, code) ==
    The({After(W, c) : c \in
            {startInvitation(n, code, Petname(n, code), Transports(n),
                             W.store[n], W.subs[n], W.rng[n][code])}})

RECURSIVE pollEach(_, _, _)
pollEach(W, n, ids) ==
    IF ids = {} THEN W
    ELSE LET id == CHOOSE x \in ids : TRUE
             pick == CHOOSE p \in Picks(newBodies(id, W.rdv[id], W.store[n]))
                         : TRUE
             c == messagesReceived(n, id, W.rdv[id], pick, W.store[n],
                                   W.subs[n], W.rng[n][CodeOf(id)])
         IN  The({pollEach(W1, n, ids \ {id}) : W1 \in {After(W, c)}})

poll(W, n) == pollEach(W, n, W.subs[n])

invited(W, code) == The({invite(W1, 2, code) : W1 \in {invite(W, 1, code)}})

polled(W) == The({poll(W1, 2) : W1 \in {poll(W, 1)}})

add_new_channel(W, code) ==
    The({polled(W3) : W3 \in
            {polled(W2) : W2 \in
                {polled(W1) : W1 \in {invited(W, code)}}}})

RECURSIVE make_nodes(_, _)
make_nodes(W, codes) ==
    IF codes = {} THEN W
    ELSE LET code == CHOOSE x \in codes : \A y \in codes : x <= y
         IN  The({make_nodes(W1, codes \ {code})
                  : W1 \in {add_new_channel(W, code)}})

EmptyWorld ==
    [store |-> [n \in Nodes |-> NewStore],
     rdv |-> [i \in InviteIDs |-> {}],
     subs |-> [n \in Nodes |-> {}],
     rng |-> [n \in Nodes |-> [code \in Codes |-> 0]],
     handled |-> [n \in Nodes |-> [code \in Codes |-> <<>>]]]

\* the channel tests start from two nodes paired once per code
InitChan ==
    \E W \in {make_nodes(EmptyWorld, Codes)} :
        /\ store = W.store
        /\ rdv = W.rdv
        /\ subs = W.subs
        /\ rng = W.rng
        /\ handled = W.handled
        /\ outbox = [n \in Nodes |-> [cid \in Codes |-> <<>>]]
        /\ accepted = [n \in Nodes |-> [cid \in Codes |-> {}]]
        /\ notified = [n \in Nodes |-> <<>>]
        /\ mailbox = [n \in Nodes |-> NoMail]
        /\ sending = [n \in Nodes |-> <<>>]
        /\ last = NoCall

NextChan ==
    \/ \E n \in Nodes, cid \in Codes, payload \in Payloads :
           CreateMsgC(n, cid, payload)
    \/ \E n \in Nodes : \E msgC \in AllMsgC : ProcessMsgC(n, msgC)

SpecChan == InitChan /\ [][NextChan]_vars

\* the channel tests with altered copies of the msgC delivered as well:
\* node 1 builds the msgC, and either node is given them
NextForged ==
    \/ \E cid \in Codes : Built < MaxForged /\ CreateMsgC(1, cid, 1)
    \/ \E n \in Nodes : \E msgC \in AllMsgC : ProcessMsgC(n, msgC)
    \/ \E n \in Nodes : \E m \in AllMsgC :
           \E msgC \in Alterations(m) : ProcessForged(n, msgC)

SpecForged == InitChan /\ [][NextForged]_vars

\* sends on the paired nodes, with the transports reporting in any order
NextSend ==
    \/ \E n \in Nodes, cid \in Codes : Send(n, cid, 1)
    \/ \E n \in Nodes, i \in 1..MaxMsgs, k \in 1..2 : Report(n, i, k)

SpecSend == InitChan /\ [][NextSend]_vars

\* a send on row cid that does not finish.  The process dies in createMsgC
\* before its commit ("before") or right after it ("after") and starts
\* again; or json.dumps raises on the payload, after the commit ("dumps");
\* or msgC is built and the first t.send raises ("transport")
Fail(n, cid, how) ==
    /\ Built < MaxMsgs
    /\ \E r \in store[n].conn.addressbook :
          r.id = cid /\ r.next_outbound_seqnum <= MaxMsgs
    /\ \E res \in {OutboundChannel_send(n, store[n], cid, 1)} :
           /\ store' = [store EXCEPT ![n] =
                           IF how = "before" THEN Restart(store[n])
                           ELSE IF how = "after" THEN Restart(res.st)
                           ELSE res.st]
           /\ outbox' = [outbox EXCEPT ![n][cid] =
                            IF how = "transport"
                            THEN Append(@, [payload |-> 1,
                                            msgC |-> res.msgC[1]])
                            ELSE @]
           /\ sending' = [sending EXCEPT ![n] =
                             IF how = "transport"
                             THEN Append(@, [cid |-> cid, msgC |-> res.msgC,
                                             handed |-> <<>>,
                                             reported |-> {},
                                             fired |-> FALSE])
                             ELSE @]
           /\ last' = [NoCall EXCEPT !.op = "fail", !.n = n, !.arg = cid,
                          !.err = how,
                          !.msgC = IF how = "transport" THEN res.msgC
                                   ELSE <<>>]
    /\ UNCHANGED <<rdv, subs, rng, handled, accepted, notified, mailbox>>

\* sends of node 1 of which any may fail or be cut short by the death of
\* the process
NextFail ==
    \E cid \in Codes :
        \/ Send(1, cid, 1)
        \/ \E how \in {"before", "after", "dumps", "transport"} :
               Fail(1, cid, how)

SpecFail == InitChan /\ [][NextFail]_vars

----------------------------------------------------------------------------
(* Properties *)

\* node n has run startInvitation for the code
Started(n, code) == rng[n][code] > 0

\* the committed addressbook rows of node n that came from the code
RowsFor(n, code) ==
    {r \in store[n].disk.addressbook : r.petname = Petname(n, code)}

\* node n has finished the pairing for the code
Paired(n, code) ==
    /\ \A r \in store[n].disk.invitations : r.inviteID # InviteID(code)
    /\ Cardinality(RowsFor(n, code)) = 1
    /\ \A r \in RowsFor(n, code) : r.acked = 1

\* C1: when both nodes have started an invitation with the same code and
\* every poll returns everything posted so far, fair polling by both nodes
\* leads to a state where, on both nodes, the invitation row is gone and the
\* address book holds exactly one row for the pairing, with acked = 1.
C1_PairingConverges ==
    \A code \in Codes :
        (\A n \in Nodes : Started(n, code)) ~> (\A n \in Nodes : Paired(n, code))

C1_Witness ==
    \A code \in Codes, n \in Nodes : Started(n, code) /\ Paired(n, code)

\* C2: whenever both nodes hold an addressbook row for one pairing, each
\* row's stored peer channel record carries the other row's my_CID_key, and
\* each row's their_verfkey is the verify key of the other row's signing key.
C2_KeyAgreement ==
    \A code \in Codes : \A a \in RowsFor(1, code), b \in RowsFor(2, code) :
        /\ JsonLoads(a.their_channel_record_json).CID_key = b.my_CID_key
        /\ JsonLoads(b.their_channel_record_json).CID_key = a.my_CID_key
        /\ UnHex(a.their_verfkey) = VerifyKey(UnHex(b.my_signkey))
        /\ UnHex(b.their_verfkey) = VerifyKey(UnHex(a.my_signkey))

C2_Witness ==
    \A code \in Codes : RowsFor(1, code) # {} /\ RowsFor(2, code) # {}

\* the addressbook of node n as its connection sees it
AB(n) == store[n].conn.addressbook

\* the row of the peer node that belongs to the same pairing as row r of n
PeerRow(n, r) ==
    CHOOSE q \in AB(Peer(n)) :
        \E code \in Codes : r.petname = Petname(n, code)
                            /\ q.petname = Petname(Peer(n), code)

SeqnumOf(msgC) == msgC.msgD.msgE.seqnum

\* C3: a msgC built by createMsgC(p) on one side of a completed pairing is
\* turned by process_msgC on the other side into (the peer's addressbook id
\* for the sender, p), provided the peer accepted no msgC with an equal or
\* higher seqnum on that channel before.
C3_RoundTrip ==
    /\ \A n \in Nodes : \A r \in AB(n) : \A i \in DOMAIN outbox[n][r.id] :
         LET e == outbox[n][r.id][i]
             b == PeerRow(n, r)
             res == process_msgC(store[Peer(n)], e.msgC)
         IN  (\A m \in accepted[Peer(n)][b.id] : SeqnumOf(m) < SeqnumOf(e.msgC))
             => /\ res.err = ""
                /\ res.ret = [cid |-> b.id, payload |-> e.payload]
    /\ (last.op = "process_msgC" /\ last.err = "")
       => \E r \in AB(Peer(last.n)) :
            \E i \in DOMAIN outbox[Peer(last.n)][r.id] :
               /\ outbox[Peer(last.n)][r.id][i].msgC = last.msgC[1]
               /\ last.ret = [cid |-> PeerRow(Peer(last.n), r).id,
                              payload |-> outbox[Peer(last.n)][r.id][i].payload]

C3_Witness ==
    /\ last.op = "process_msgC" /\ last.err = ""
    /\ last.ret = [cid |-> 2, payload |-> 2]
    /\ SeqnumOf(last.msgC[1]) = 2

\* C4: process_msgC given again a msgC that the node accepted before fails
\* with Replay, returns no payload and leaves the database as it was.
C4_ReplayRejected ==
    \A n \in Nodes, cid \in Codes : \A m \in accepted[n][cid] :
        LET res == process_msgC(store[n], m)
        IN  /\ res.err = "ReplayError"
            /\ res.ret = NoReturn
            /\ res.st = store[n]

C4_Witness ==
    /\ last.op = "process_msgC" /\ last.err = "ReplayError"
    /\ \E cid \in Codes : last.msgC[1] \in accepted[last.n][cid]

\* C5: next_outbound_seqnum of a row starts at 1; the i-th msgC built on
\* the row carries seqnum i, and the stored value is one more than the
\* number of msgC built: the seqnums are 1, 2, 3, ... without repeats.
C5_OutboundSeqnums ==
    \A n \in Nodes : \A r \in AB(n) :
        /\ r.next_outbound_seqnum = Len(outbox[n][r.id]) + 1
        /\ \A i \in DOMAIN outbox[n][r.id] :
             /\ SeqnumOf(outbox[n][r.id][i].msgC) = i
             /\ outbox[n][r.id][i].msgC.CIDBox.seqnum = i

C5_Witness ==
    /\ last.op = "createMsgC"
    /\ Len(outbox[last.n][last.arg]) = 3

\* highest_inbound_seqnum equals the largest seqnum accepted on the row
HighestIsLargestAccepted ==
    \A n \in Nodes : \A r \in AB(n) :
        r.highest_inbound_seqnum =
            Max({0} \cup {SeqnumOf(m) : m \in accepted[n][r.id]})

\* highest_inbound_seqnum changes only when process_msgC accepts a message
\* for the row, and then to that message's seqnum, which is greater
HighestChangesOnAccept ==
    \A n \in Nodes : \A r \in AB(n) : \A q \in store'[n].conn.addressbook :
        (q.id = r.id /\ q.highest_inbound_seqnum # r.highest_inbound_seqnum)
        => /\ last'.op = "process_msgC" /\ last'.err = "" /\ last'.n = n
           /\ last'.ret.cid = r.id
           /\ q.highest_inbound_seqnum = SeqnumOf(last'.msgC[1])
           /\ q.highest_inbound_seqnum > r.highest_inbound_seqnum

\* C6: highest_inbound_seqnum of a row starts at 0, changes only when
\* process_msgC accepts a message for that row, is then set to the message's
\* seqnum, which is greater than the old value, and so always equals the
\* largest seqnum accepted on the row.
C6_InboundSeqnums ==
    []HighestIsLargestAccepted /\ [][HighestChangesOnAccept]_vars

C6_Witness ==
    /\ last.op = "process_msgC" /\ last.err = ""
    /\ \E r \in AB(last.n) : r.id = last.ret.cid
                             /\ r.highest_inbound_seqnum = 2
                             /\ Cardinality(accepted[last.n][r.id]) = 2

\* C7: startInvitation with a code whose inviteID is that of a pending
\* invitation fails with CommandError, writes nothing, sends nothing and
\* subscribes to nothing; no two pending invitations share an inviteID.
C7_DuplicateCodeRejected ==
    /\ \A n \in Nodes : \A r1, r2 \in store[n].conn.invitations :
         r1.inviteID = r2.inviteID => r1 = r2
    /\ \A n \in Nodes, code \in Codes :
         (\E r \in store[n].conn.invitations : r.inviteID = InviteID(code))
         => LET c == startInvitation(n, code, Petname(n, code), Transports(n),
                                     store[n], subs[n], rng[n][code])
            IN  /\ c.err = "CommandError"
                /\ c.st = store[n]
                /\ c.out = <<>>
                /\ c.subs = subs[n]

C7_Witness ==
    last.op = "startInvitation" /\ last.err = "CommandError"

\* C8: processing the batch just processed a second time leaves the
\* invitation row and the address book as the first processing left them,
\* and sends nothing but members of my_messages that are not in the batch.
C8_RedeliveryIdempotent ==
    last.op = "messagesReceived" =>
        LET n == last.n
            id == InviteID(last.arg)
            mine == UNION {r.myMessages : r \in
                             {q \in store[n].conn.invitations : q.inviteID = id}}
        IN  \A pick \in Picks(newBodies(id, last.batch, store[n])) :
              LET c == messagesReceived(n, id, last.batch, pick, store[n],
                                        subs[n], rng[n][last.arg])
              IN  /\ c.st.conn = store[n].conn
                  /\ c.st.disk = store[n].disk
                  /\ Sent(c) \subseteq (mine \ last.batch)

StagePrefixes == {"i0:m1:", "i0:m2:", "i0:m3:"}

\* C9: however the rendezvous orders, splits and repeats the peer's M1, M2
\* and M3, each stage is handled once and in order, and an invitation to
\* which all three peer messages have been delivered has completed.
C9_CompletesOnceAllDelivered ==
    \A n \in Nodes, code \in OneCode :
        /\ \E k \in 0..3 : handled[n][code] = SubSeq(<<1, 2, 3>>, 1, k)
        /\ \A r \in store[n].disk.invitations :
             ~(\A p \in StagePrefixes : \E m \in r.theirMessages : m.body.p = p)

\* C10: a handshake message (M1, M2, M3) is handed to the rendezvous only
\* when the committed invitation row already lists it in my_messages.
C10_CommitPrecedesSend ==
    \A i \in DOMAIN last.out :
        last.out[i].m.body.p \in StagePrefixes => last.out[i].durable

\* the events observer o of node n was or will be called with, for a table
EventsFor(n, o, table) ==
    LET mine == SelectSeq(Notices(n),
                    LAMBDA e : e.o = o /\ e.event.table = table)
    IN  [i \in DOMAIN mine |-> mine[i].event]

\* every call handed to eventually() was handed over after conn.commit()
NoticesAfterCommit ==
    \A n \in Nodes : \A i \in DOMAIN Notices(n) : Notices(n)[i].committed

\* observers run in a turn of the reactor and in no other step
ObserversRunInTurn ==
    \A n \in Nodes :
        notified'[n] # notified[n] => last'.op = "turn" /\ last'.n = n

\* C11: no observer runs during insert, update, delete or commit; every
\* observer call is made in a later turn, and was queued when the commit
\* that holds its write was already durable.
C11_DeferredNotification ==
    []NoticesAfterCommit /\ [][ObserversRunInTurn]_vars

C11_Witness ==
    /\ last.op = "turn"
    /\ \E i \in DOMAIN notified[1] : notified[1][i].event.action = "update"

\* the addressbook notices a node has produced, read off its committed row
AddressbookWrites(n) ==
    LET rows == RowSeq(store[n].disk.addressbook)
    IN  Flatten([i \in DOMAIN rows |->
            IF rows[i].acked = 0
            THEN <<Notice("addressbook", "insert", rows[i].id, {rows[i]})>>
            ELSE <<Notice("addressbook", "insert", rows[i].id,
                          {[rows[i] EXCEPT !.acked = 0]}),
                   Notice("addressbook", "update", rows[i].id, {rows[i]})>>])

\* position of the first call of observer o for a write of that kind to the
\* table, or 0
FirstCall(n, o, table, action) ==
    LET S == {i \in DOMAIN Notices(n) :
                 /\ Notices(n)[i].o = o
                 /\ Notices(n)[i].event.table = table
                 /\ Notices(n)[i].event.action = action}
    IN  IF S = {} THEN 0 ELSE CHOOSE i \in S : \A j \in S : i <= j

\* C12: each observer of a table gets one notice per write to the table,
\* in the order of the writes, and no notice twice: an addressbook observer
\* of a pairing sees insert with acked = 0, then update with acked = 1, and
\* an observer of both tables sees the addressbook insert before the
\* invitation's delete and the addressbook update before it too.
C12_NotificationOrder ==
    /\ \A o \in {1, 2} : EventsFor(1, o, "addressbook") = AddressbookWrites(1)
    /\ EventsFor(2, 1, "addressbook") = <<>>
    /\ FirstCall(1, 2, "invitations", "delete") # 0
       => /\ FirstCall(1, 2, "addressbook", "insert") # 0
          /\ FirstCall(1, 2, "addressbook", "insert")
                < FirstCall(1, 2, "addressbook", "update")
          /\ FirstCall(1, 2, "addressbook", "update")
                < FirstCall(1, 2, "invitations", "delete")
          /\ FirstCall(1, 2, "invitations", "insert")
                < FirstCall(1, 2, "addressbook", "insert")

C12_Witness ==
    /\ store[1].eventual = <<>>
    /\ Len(EventsFor(1, 1, "addressbook")) = 2
    /\ EventsFor(1, 1, "addressbook")[2].action = "update"

\* the notices of node n: queued by a write, or handed to the observers
AllNotices(n) ==
    {store[n].pending[i] : i \in DOMAIN store[n].pending}
        \cup {Notices(n)[i].event : i \in DOMAIN Notices(n)}

\* C13: a notice of an insert or an update carries the row as it is after
\* the write, a notice of a delete carries no row.
C13_NoticeContent ==
    \A n \in Nodes : \A e \in AllNotices(n) :
        /\ e.action \in {"insert", "update"}
           => /\ e.new_value # {}
              /\ \A r \in e.new_value : r.id = e.id
        /\ e.action = "delete" => e.new_value = {}


----------------------------------------------------------------------------
(* CID isolation *)

\* C14 as stated: on a node with no row holding the my_CID_key of a CIDBox,
\* find_channel_from_CIDBox returns (None, None); on the node owning the
\* key it returns the id of the row holding it and the channel pubkey named
\* in the CIDBox, whatever the seqnum of the CIDBox
C14_CIDIsolation_AsStated ==
    \A n \in Nodes : \A msgC \in AllMsgC :
        LET res == find_channel_from_CIDBox(store[n], msgC.CIDBox)
            owners == {r \in store[n].conn.addressbook :
                          UnHex(r.my_CID_key) = msgC.CIDBox.key}
        IN  /\ owners = {} => res = [cid |-> 0, pubkey |-> 0, err |-> ""]
            /\ \A r \in owners :
                   res = [cid |-> r.id, pubkey |-> msgC.CIDBox.channel_pubkey,
                          err |-> ""]

\* C14 amended: on a node with no row holding the my_CID_key of a CIDBox,
\* find_channel_from_CIDBox returns (None, None); on the node owning the
\* key it returns the id of exactly the row holding it and the channel
\* pubkey named in the CIDBox when the seqnum of the CIDBox is above that
\* row's highest_inbound_seqnum, and raises ReplayError otherwise
C14_CIDIsolation ==
    \A n \in Nodes : \A msgC \in AllMsgC :
        LET res == find_channel_from_CIDBox(store[n], msgC.CIDBox)
            owners == {r \in store[n].conn.addressbook :
                          UnHex(r.my_CID_key) = msgC.CIDBox.key}
        IN  /\ owners = {} => res = [cid |-> 0, pubkey |-> 0, err |-> ""]
            /\ \A r \in owners :
                   /\ owners = {r}
                   /\ IF msgC.CIDBox.seqnum > r.highest_inbound_seqnum
                      THEN res = [cid |-> r.id,
                                  pubkey |-> msgC.CIDBox.channel_pubkey,
                                  err |-> ""]
                      ELSE res.err = "ReplayError"

\* a msgC was just refused by a node holding no row for its CIDBox, while
\* the other node finds the row it was built for
C14_Witness ==
    /\ last.op = "process_msgC"
    /\ last.err = "UnknownChannelError"
    /\ \A r \in store[last.n].conn.addressbook :
           UnHex(r.my_CID_key) # last.msgC[1].CIDBox.key
    /\ find_channel_from_CIDBox(store[last.n], last.msgC[1].CIDBox)
           = [cid |-> 0, pubkey |-> 0, err |-> ""]
    /\ \E n \in Nodes :
           find_channel_from_CIDBox(store[n], last.msgC[1].CIDBox).cid # 0

----------------------------------------------------------------------------
(* Cross-validation of the parts of a msgC *)

\* C15: process_msgC delivers a payload and advances highest_inbound_seqnum
\* only if the CIDBox opens under the my_CID_key of the chosen row, the
\* seqnum of the CIDBox is the seqnum of msgE, the channel pubkey of the
\* CIDBox is the public key of the private key that opened msgD, the hash
\* of the CIDBox is SHA-256(msgD) and the CIDToken is the one derived from
\* the CID key and the seqnum; otherwise nothing is returned and the
\* database of the node stays as it was
C15_CrossValidationGate ==
    [][last'.op = "process_msgC" =>
        LET msgC == last'.msgC[1]
            n == last'.n
        IN  IF last'.err = ""
            THEN \E r \in store[n].conn.addressbook :
                    /\ r.id = last'.ret.cid
                    /\ msgC.CIDBox.key = UnHex(r.my_CID_key)
                    /\ msgC.CIDBox.seqnum = msgC.msgD.msgE.seqnum
                    /\ \E priv \in {UnHex(r.my_old_channel_privkey),
                                   UnHex(r.my_new_channel_privkey)} :
                           /\ Box(priv, msgC.msgD.pubkey2) = msgC.msgD.box
                           /\ msgC.CIDBox.channel_pubkey = PublicKey(priv)
                    /\ msgC.CIDBox.HmsgD = sha256(msgC.msgD)
                    /\ msgC.CIDToken =
                           build_CIDToken(UnHex(r.my_CID_key),
                                          msgC.msgD.msgE.seqnum)
            ELSE /\ last'.ret = NoReturn
                 /\ store' = store
                 /\ accepted' = accepted]_vars

\* an altered msgC that names its row and opens with the row's key was just
\* refused by validate_msgC on a node that accepted a msgC before
C15_Witness ==
    /\ last.op = "process_msgC"
    /\ last.err = "ValueError"
    /\ last.msgC[1] \notin AllMsgC
    /\ last.msgC[1].prefix = "c0:"
    /\ \E cid \in Codes : accepted[last.n][cid] # {}

----------------------------------------------------------------------------
(* Binding of msgE to the pub2 of msgD *)

\* C16: when process_msgC is given a msgC that names a row, whose msgD opens
\* with the row's key and whose msgE is no replay and carries a signature of
\* the peer's verify key with the prefix ce0:, but the signed plaintext is
\* not the pub2 heading msgD, then check_msgE fails with WrongVerfkeyError,
\* nothing is returned and highest_inbound_seqnum stays as it was
C16_SenderBinding ==
    [][(/\ last'.op = "process_msgC"
        /\ LET msgC == last'.msgC[1]
               msgE == msgC.msgD.msgE
           IN  /\ msgC.prefix = "c0:"
               /\ \E r \in store[last'.n].conn.addressbook :
                     /\ msgC.CIDBox.key = UnHex(r.my_CID_key)
                     /\ msgC.CIDBox.seqnum > r.highest_inbound_seqnum
                     /\ msgC.CIDBox.channel_pubkey =
                            PublicKey(UnHex(r.my_old_channel_privkey))
                     /\ Box(UnHex(r.my_old_channel_privkey),
                            msgC.msgD.pubkey2) = msgC.msgD.box
                     /\ msgE.seqnum > r.highest_inbound_seqnum
                     /\ VerifyKey(msgE.ns.signer) = UnHex(r.their_verfkey)
                     /\ msgE.ns.prefix = "ce0:"
                     /\ msgE.ns.m # msgC.msgD.pubkey2)
       => /\ last'.err = "WrongVerfkeyError"
          /\ last'.ret = NoReturn
          /\ store' = store]_vars

----------------------------------------------------------------------------
(* Messages on the rendezvous that the protocol does not allow *)

\* C17: when a batch holds a new message that is not r0: and hex or that
\* does not verify under the invitation's verify key, the invitation
\* unsubscribes from the inviteID, no handler runs and the invitation row
\* and the addressbook stay as they were
C17_CorruptRendezvousMessage ==
    [][(/\ last'.op = "messagesReceived"
        /\ \E r \in store[last'.n].conn.invitations :
              /\ r.inviteID = InviteID(last'.arg)
              /\ \E m \in (last'.batch \ r.myMessages) \ r.theirMessages :
                    ~(m.hexok /\ VerifyKey(m.sig) = UnHex(r.inviteID)))
       => /\ InviteID(last'.arg) \notin subs'[last'.n]
          /\ last'.ran = <<>>
          /\ store'[last'.n].conn = store[last'.n].conn]_vars

\* C18: when an invitation that expects M2 is given a batch whose new M2
\* opens with its temp key and carries a verifying inner signature, but
\* names another key than the recipient's temp public key or than the
\* peer's temp public key stored from M1, then no addressbook row is
\* inserted, nextExpectedMessage does not become 3, no M3 is sent and the
\* invitation unsubscribes from the inviteID
C18_M2BindingFailure ==
    [][(/\ last'.op = "messagesReceived"
        /\ \E r \in store[last'.n].conn.invitations :
              LET new == (last'.batch \ r.myMessages) \ r.theirMessages
                  m2s == {m.body : m \in {x \in new : x.body.p = "i0:m2:"}}
                  mine == PublicKey(UnHex(r.myTempPrivkey))
                  theirs == UnHex(r.theirTempPubkey)
              IN  /\ r.inviteID = InviteID(last'.arg)
                  /\ r.nextExpectedMessage = 2
                  /\ \A m \in new :
                        m.hexok /\ VerifyKey(m.sig) = UnHex(r.inviteID)
                  /\ m2s # {}
                  /\ \A b \in m2s :
                        /\ b.box = Box(UnHex(r.myTempPrivkey), theirs)
                        /\ b.inner.p2 = "i0:m2a:"
                        /\ VerifyKey(b.inner.signer) = b.inner.verf
                        /\ b.inner.c1 # mine \/ b.inner.c2 # theirs)
       => /\ store'[last'.n].conn.addressbook
                = store[last'.n].conn.addressbook
          /\ \A r \in store'[last'.n].conn.invitations :
                r.nextExpectedMessage # 3
          /\ \A i \in DOMAIN last'.out : last'.out[i].m.body.p # "i0:m3:"
          /\ InviteID(last'.arg) \notin subs'[last'.n]]_vars

\* C19: a batch delivered for an inviteID whose invitation row was deleted
\* when the pairing completed raises no error, leaves the database as it
\* was and sends nothing
C19_LateDuplicatesIgnored ==
    [][(/\ last'.op = "messagesReceived"
        /\ \A r \in store[last'.n].conn.invitations :
              r.inviteID # InviteID(last'.arg)
        /\ \E a \in store[last'.n].conn.addressbook : a.acked = 1)
       => /\ last'.err = ""
          /\ last'.out = <<>>
          /\ store' = store]_vars

----------------------------------------------------------------------------
(* The two channel keys of a row *)

C21_NewKeyFirst ==
    \A n \in Nodes : \A msgC \in AllMsgC :
        LET found == find_channel_list(store[n], msgC.CIDToken, msgC.CIDBox)
            k == decrypt_msgD(msgC.msgD, found.keylist)
        IN  (/\ found.err = ""
             /\ \E i \in DOMAIN found.keylist :
                   /\ found.keylist[i].which = "new"
                   /\ Box(found.keylist[i].privkey, msgC.msgD.pubkey2)
                          = msgC.msgD.box)
            => k # 0 /\ found.keylist[k].which = "new"

----------------------------------------------------------------------------
(* The mailbox server *)

\* C22: when the mailbox server of a node handles a msgA built from a
\* transport record whose STID belongs to a tokenid that is not registered
\* with it, it signals exactly one unrecognized TID and hands no msgC on
C22_UnknownMailboxToken ==
    [][(/\ last'.op = "handle_msgA"
        /\ last'.arg \notin Mailbox(last'.n).tokenids)
       => /\ Len(mailbox'[last'.n].unknowns)
                = Len(mailbox[last'.n].unknowns) + 1
          /\ mailbox'[last'.n].inbox = mailbox[last'.n].inbox
          /\ \A n \in Nodes \ {last'.n} : mailbox'[n] = mailbox[n]
          /\ accepted' = accepted /\ store' = store]_vars

\* a server that handed a msgC on before has just signalled an unknown TID
C22_Witness ==
    /\ last.op = "handle_msgA"
    /\ last.arg \notin Mailbox(last.n).tokenids
    /\ mailbox[last.n].unknowns # <<>>
    /\ mailbox[last.n].inbox # <<>>

----------------------------------------------------------------------------
(* The invitation row between batches *)

\* C23: a freshly created invitation is committed with myMessages = {its
\* signed M1}, theirMessages empty and nextExpectedMessage = 1, and every
\* committed invitation row holds as many messages in myMessages as its
\* nextExpectedMessage says and at least nextExpectedMessage - 1 messages
\* in theirMessages
C23_HandshakeCounters ==
    /\ (last.op = "startInvitation" /\ last.err = "") =>
          \E r \in store[last.n].disk.invitations :
             /\ r.inviteID = InviteID(last.arg)
             /\ r.myMessages =
                   {SignedFrame(UnHex(r.inviteKey),
                        BodyM1(PublicKey(UnHex(r.myTempPrivkey))))}
             /\ r.theirMessages = {}
             /\ r.nextExpectedMessage = 1
    /\ \A n \in Nodes : \A r \in store[n].disk.invitations :
          /\ Cardinality(r.myMessages) = r.nextExpectedMessage
          /\ Cardinality(r.theirMessages) >= r.nextExpectedMessage - 1

\* a committed invitation row stands at (3, 2, 3) while the peer's row
\* stands at (2, 1, 2)
C23_Witness ==
    \E n \in Nodes :
        /\ \E r \in store[n].disk.invitations :
              /\ Cardinality(r.myMessages) = 3
              /\ Cardinality(r.theirMessages) = 2
              /\ r.nextExpectedMessage = 3
        /\ \E r \in store[Peer(n)].disk.invitations :
              /\ Cardinality(r.myMessages) = 2
              /\ Cardinality(r.theirMessages) = 1
              /\ r.nextExpectedMessage = 2

\* C24: what one batch writes becomes durable together or not at all, also
\* when a handler raises: in every committed state an invitation row holds
\* theirTempPubkey exactly when its nextExpectedMessage has passed 1, and
\* holds an addressbook_id, with the addressbook row of that id committed,
\* exactly when its nextExpectedMessage has passed 2
C24_BatchAtomicity ==
    \A n \in Nodes : \A r \in store[n].disk.invitations :
        /\ r.theirTempPubkey # <<>> <=> r.nextExpectedMessage >= 2
        /\ r.addressbook_id # 0 <=> r.nextExpectedMessage >= 3
        /\ (\E a \in store[n].disk.addressbook : a.id = r.addressbook_id)
               <=> r.nextExpectedMessage >= 3

\* C25: in every processMessages(batch), each message of the stored
\* myMessages that is absent from the batch is broadcast again exactly once
\* and none that is present in the batch is broadcast again; an empty batch
\* broadcasts all of myMessages again and changes no state
C25_ResendRule ==
    [][last'.op = "messagesReceived" =>
        \A r \in store[last'.n].conn.invitations :
            r.inviteID = InviteID(last'.arg) =>
               /\ \A m \in r.myMessages :
                     Cardinality({i \in DOMAIN last'.out :
                                     last'.out[i].m = m})
                        = IF m \in last'.batch THEN 0 ELSE 1
               /\ last'.batch = {} =>
                     /\ {last'.out[i].m : i \in DOMAIN last'.out}
                            = r.myMessages
                     /\ store' = store
                     /\ subs' = subs]_vars

\* an empty batch has just made an invitation broadcast its two stored
\* messages again
C25_Witness ==
    /\ last.op = "messagesReceived"
    /\ last.err = ""
    /\ last.batch = {}
    /\ Len(last.out) = 2
    /\ \E r \in store[last.n].conn.invitations :
          {last.out[i].m : i \in DOMAIN last.out} = r.myMessages

\* C26: in one batch the handlers run in stage order, each at most once, and
\* the handler of stage k runs only when nextExpectedMessage is k at that
\* point of the pass and a new body with its prefix is in the batch; a batch
\* with the peer's M1 and M2 takes an invitation from 1 to 3, and every new
\* message of the batch, handled or not, is recorded in theirMessages
C26_StageOrderedDispatch ==
    [][(last'.op = "messagesReceived" /\ last'.err = "") =>
        \A r \in store[last'.n].conn.invitations :
            r.inviteID = InviteID(last'.arg) =>
               LET new == (last'.batch \ r.myMessages) \ r.theirMessages
                   has(p) == \E m \in new : m.body.p = p
                   r1 == r.nextExpectedMessage = 1 /\ has("i0:m1:")
                   k2 == IF r1 THEN 2 ELSE r.nextExpectedMessage
                   r2 == k2 = 2 /\ has("i0:m2:")
                   k3 == IF r2 THEN 3 ELSE k2
                   r3 == k3 = 3 /\ has("i0:m3:")
                   after == {q \in store'[last'.n].conn.invitations :
                                q.id = r.id}
               IN  /\ last'.ran = (IF r1 THEN <<1>> ELSE <<>>)
                                  \o (IF r2 THEN <<2>> ELSE <<>>)
                                  \o (IF r3 THEN <<3>> ELSE <<>>)
                   /\ IF r3 THEN after = {}
                      ELSE \E q \in after :
                              /\ after = {q}
                              /\ q.nextExpectedMessage = k3
                              /\ q.theirMessages = r.theirMessages \cup new]_vars

\* one batch has just taken an invitation from 1 to 3; it held two bodies
\* with the prefix i0:m2:, and both are now in theirMessages
C26_Witness ==
    /\ last.op = "messagesReceived"
    /\ last.err = ""
    /\ last.ran = <<1, 2>>
    /\ \E r \in store[last.n].conn.invitations :
          /\ r.nextExpectedMessage = 3
          /\ Cardinality({m \in r.theirMessages \cap last.batch :
                             m.body.p = "i0:m2:"}) = 2

\* C27: nextExpectedMessage of a committed invitation row is 1, 2 or 3; from
\* one committed state to the next it never decreases, and it grows by
\* exactly one for every handler that ran in the call that committed
C27_StageCounter ==
    [][\A n \in Nodes : \A q \in store'[n].disk.invitations :
          /\ q.nextExpectedMessage \in {1, 2, 3}
          /\ \A r \in store[n].disk.invitations :
                r.id = q.id =>
                   q.nextExpectedMessage =
                      r.nextExpectedMessage +
                         (IF last'.op = "messagesReceived" /\ last'.n = n
                             /\ last'.err = ""
                             /\ r.inviteID = InviteID(last'.arg)
                          THEN Len(last'.ran) ELSE 0)]_vars

\* a call that ran processM2 alone has just committed the row at 3
C27_Witness ==
    /\ last.op = "messagesReceived"
    /\ last.err = ""
    /\ last.ran = <<2>>
    /\ \E r \in store[last.n].disk.invitations :
          r.inviteID = InviteID(last.arg) /\ r.nextExpectedMessage = 3

\* C28: in every committed invitation row no wire message is a member of
\* both myMessages and theirMessages
C28_DisjointMessageSets ==
    \A n \in Nodes : \A r \in store[n].disk.invitations :
       r.myMessages \cap r.theirMessages = {}

\* a committed row whose theirMessages holds an M2 the node itself signed and
\* sent in a call that failed, next to the M2 it stored in myMessages
C28_Witness ==
    \E n \in Nodes : \E r \in store[n].disk.invitations :
       /\ \E m \in r.theirMessages :
             /\ m.body.p = "i0:m2:"
             /\ m.body.inner.signer = UnHex(r.mySigningKey)
             /\ m.body.inner.c2 = PublicKey(UnHex(r.myTempPrivkey))
             /\ m.body.tail # 0
       /\ \E m \in r.myMessages : m.body.p = "i0:m2:"

\* C29: a call broadcasts an i0:destroy: message exactly when it handled an
\* M3, once, and then its batch holds an M3 of the peer and the state it
\* commits has the address-book row acked and the invitation row deleted;
\* the message is in no myMessages; each side has sent one such message if
\* it handled M3 and none otherwise, so a pairing completed on both sides
\* carries exactly two
C29_DestroyMessage ==
    LET IsDestroy(m) == m.hexok /\ m.sig # 0 /\ m.body.p = "i0:destroy:"
        From(n, code) == {m \in rdv[InviteID(code)] :
                             IsDestroy(m) /\ m.body.tail \div 1000 = n}
        HandledM3(n, code) == {i \in DOMAIN handled[n][code] :
                                  handled[n][code][i] = 3}
        d == {i \in DOMAIN last.out : IsDestroy(last.out[i].m)}
        ran3 == {i \in DOMAIN last.ran : last.ran[i] = 3}
    IN  /\ Cardinality(d) = (IF last.err = "" THEN Cardinality(ran3) ELSE 0)
        /\ Cardinality(d) <= 1
        /\ d # {} =>
             /\ last.op = "messagesReceived"
             /\ \E m \in last.batch :
                   /\ m.hexok /\ m.sig # 0
                   /\ m.body.p = "i0:m3:" /\ m.body.ack
                   /\ m.body.tail \div 1000 = Peer(last.n)
             /\ \A i \in d : ~last.out[i].durable
             /\ \A r \in store[last.n].disk.invitations :
                   r.inviteID # InviteID(last.arg)
             /\ \E a \in store[last.n].disk.addressbook : a.acked = 1
             /\ InviteID(last.arg) \notin subs[last.n]
        /\ \A n \in Nodes :
             \A r \in store[n].conn.invitations \cup store[n].disk.invitations :
                \A m \in r.myMessages : ~IsDestroy(m)
        /\ \A n \in Nodes, code \in Codes :
             /\ Cardinality(From(n, code)) = Cardinality(HandledM3(n, code))
             /\ Cardinality(From(n, code)) <= 1
        /\ \A code \in Codes :
             (\A n \in Nodes : HandledM3(n, code) # {}) =>
                Cardinality({m \in rdv[InviteID(code)] : IsDestroy(m)}) = 2

\* C30: the address book of a node changes by an insert only in a call that
\* handles the peer's M2 for an invitation and commits with the new row's
\* id in addressbook_id, and one invitation inserts at most one row: a node
\* that ran one invitation has at most one address-book row
C30_OneAddressbookRow ==
    \A n \in Nodes :
       /\ Cardinality(store[n].conn.addressbook)
             <= Cardinality({code \in Codes : rng[n][code] > 0})
       /\ Cardinality(store[n].disk.addressbook)
             <= Cardinality({code \in Codes : rng[n][code] > 0})
       /\ \A a \in store[n].disk.addressbook :
             \/ a.acked = 1
             \/ \E r \in store[n].disk.invitations : r.addressbook_id = a.id

\* C31: a committed address-book row is acked only from a call that handled
\* an M3 with ACK- sent by the peer and deleted the invitation row in the
\* same commit (a row committed by any other call has acked = 0), and an
\* acked row stays acked
C31_AckedFlag ==
    [][\A n \in Nodes :
          /\ \A a \in store'[n].disk.addressbook :
                (/\ a.acked # 0
                 /\ \A b \in store[n].disk.addressbook :
                       b.id = a.id => b.acked = 0)
                => /\ a.acked = 1
                   /\ last'.op = "messagesReceived"
                   /\ last'.n = n
                   /\ last'.err = ""
                   /\ \E i \in DOMAIN last'.ran : last'.ran[i] = 3
                   /\ \E m \in last'.batch :
                         /\ m.hexok /\ m.sig # 0
                         /\ m.body.p = "i0:m3:" /\ m.body.ack
                         /\ m.body.tail \div 1000 = Peer(n)
                   /\ \A r \in store'[n].disk.invitations :
                         r.inviteID # InviteID(last'.arg)
          /\ \A b \in store[n].disk.addressbook :
                b.acked = 1 =>
                   \E a \in store'[n].disk.addressbook :
                      a.id = b.id /\ a.acked = 1]_vars

\* C32: when process_msgC gets a candidate key list and no key of it opens
\* msgD, the call fails with UnknownChannelError, returns no payload and
\* leaves every address-book row (and everything else stored) as it was
C32_UnknownChannel ==
    [][(/\ last'.op = "process_msgC"
        /\ last'.msgC # <<>>
        /\ \E msgC \in {last'.msgC[1]} :
              /\ msgC.prefix = "c0:"
              /\ \E found \in {find_channel_list(store[last'.n],
                                                 msgC.CIDToken, msgC.CIDBox)} :
                    /\ found.err = ""
                    /\ \A i \in DOMAIN found.keylist :
                          Box(found.keylist[i].privkey, msgC.msgD.pubkey2)
                             # msgC.msgD.box)
       => /\ last'.err = "UnknownChannelError"
          /\ last'.ret = NoReturn
          /\ store' = store
          /\ accepted' = accepted]_vars

\* a msgC whose CIDBox names a row of the receiving node but whose msgD none
\* of that row's keys opens has just been refused
C32_Witness ==
    /\ last.op = "process_msgC"
    /\ last.err = "UnknownChannelError"
    /\ \E r \in store[last.n].conn.addressbook :
          /\ opens_CIDBox(UnHex(r.my_CID_key), last.msgC[1].CIDBox)
          /\ last.msgC[1].CIDBox.seqnum > r.highest_inbound_seqnum

C34_OneSeqnumPerSend ==
    \A n \in Nodes :
       /\ \A i \in DOMAIN sending[n] :
            \E e \in {sending[n][i]} :
            \E r \in store[n].conn.addressbook :
               /\ r.id = e.cid
               /\ Len(e.msgC) = 1
               /\ \E ts \in {JsonLoads(r.their_channel_record_json).transports} :
                     /\ DOMAIN e.handed = DOMAIN ts
                     /\ \A k \in DOMAIN ts :
                           e.handed[k] = [t |-> ts[k], msgC |-> e.msgC]
               /\ e.fired <=> e.reported = DOMAIN e.handed
               /\ \A j \in DOMAIN sending[n] :
                     (j # i /\ sending[n][j].cid = e.cid)
                        => SeqnumOf(sending[n][j].msgC[1])
                              # SeqnumOf(e.msgC[1])
       /\ \A r \in store[n].conn.addressbook :
             /\ r.next_outbound_seqnum
                   = 1 + Cardinality({i \in DOMAIN sending[n] :
                                         sending[n][i].cid = r.id})
             /\ Len(outbox[n][r.id]) = r.next_outbound_seqnum - 1

\* a send to a peer with two transports has fired, and a later one on the
\* same row has heard from one transport only
C34_Witness ==
    \E n \in Nodes : \E i, j \in DOMAIN sending[n] :
       /\ i < j
       /\ sending[n][i].cid = sending[n][j].cid
       /\ Cardinality(DOMAIN sending[n][i].handed) = 2
       /\ sending[n][i].fired
       /\ Cardinality(sending[n][j].reported) = 1
       /\ ~sending[n][j].fired

\* C35: an M1, M2 or M3 enters the committed theirMessages of an invitation
\* row only in a call that ran the handler of its stage; a message of a
\* later stage than nextExpectedMessage is not recorded
C35_SeenImpliesHandled ==
    [][\A n \in Nodes : \A q \in store'[n].disk.invitations :
          \A m \in q.theirMessages :
             (/\ m.body.p \in {"i0:m1:", "i0:m2:", "i0:m3:"}
              /\ \A r \in store[n].disk.invitations :
                    r.id = q.id => m \notin r.theirMessages)
             => /\ last'.op = "messagesReceived"
                /\ last'.n = n
                /\ \E i \in DOMAIN last'.ran :
                      last'.ran[i] = (CASE m.body.p = "i0:m1:" -> 1
                                        [] m.body.p = "i0:m2:" -> 2
                                        [] m.body.p = "i0:m3:" -> 3)]_vars


\* C36: a handshake message that a node broadcast itself is never handled by
\* that node as the peer's, also when the node died between a send and the
\* commit after it: every stage whose handler completed in a call of
\* messagesReceived had, among the new messages of the batch, a message of
\* its prefix that the node did not send
C36_OwnMessagesNotHandled ==
    [][\A n \in Nodes :
          (last'.op = "messagesReceived" /\ last'.n = n) =>
          LET Own(m) ==
                  /\ m.hexok
                  /\ m.sig = stretch(last'.arg)
                  /\ IF m.body.p = "i0:m1:"
                     THEN (m.body.key - PublicKey(0)) \div 1000 = n
                     ELSE m.body.tail \div 1000 = n
              new == UNION {newMessages(last'.batch, r.myMessages,
                                        r.theirMessages)
                            : r \in {q \in store[n].conn.invitations :
                                        q.inviteID = InviteID(last'.arg)}}
          IN  \A i \in DOMAIN last'.ran :
                 \E m \in new :
                    /\ m.body.p = <<"i0:m1:", "i0:m2:", "i0:m3:">>[last'.ran[i]]
                    /\ ~Own(m)]_vars


\* C37: in every reachable state, also after a node died and restarted, a
\* committed address-book row with acked = 1 on one node means that the peer
\* has committed its own address-book row for the same pairing
C37_AckImpliesPeerRow ==
    \A n \in Nodes, code \in Codes :
        (\E a \in RowsFor(n, code) : a.acked = 1)
            => RowsFor(Peer(n), code) # {}


\* C38: when the nodes stop dying, a rendezvous that returns everything
\* posted and fair polling of both nodes lead from a state where both nodes
\* have run startInvitation to a state where both have finished the pairing
\* with exactly one acked address-book row each (or, in this bounded model,
\* to a node that has used up the random values it may draw)
C38_CrashRecoveryLiveness ==
    <>[][last'.op # "crash"]_vars =>
        ((\A n \in Nodes : Started(n, 1))
            ~> \/ \A n \in Nodes : Paired(n, 1)
               \/ \E n \in Nodes : rng[n][1] >= MaxDrawn)


\* C39: createMsgC commits the new next_outbound_seqnum before the msgC is
\* built or handed to a transport: the seqnum of every msgC ever produced
\* for a row is below the row's committed next_outbound_seqnum, and no two
\* msgC produced for one row carry the same seqnum, whether sends failed
\* while building, failed in a transport, or the process died in createMsgC
C39_NoSeqnumReuse ==
    \A n \in Nodes, cid \in Codes :
        \A i \in DOMAIN outbox[n][cid] :
           /\ \E r \in store[n].disk.addressbook :
                 /\ r.id = cid
                 /\ SeqnumOf(outbox[n][cid][i].msgC) < r.next_outbound_seqnum
           /\ outbox[n][cid][i].msgC.CIDBox.seqnum
                 = SeqnumOf(outbox[n][cid][i].msgC)
           /\ \A j \in DOMAIN outbox[n][cid] :
                 j # i => SeqnumOf(outbox[n][cid][j].msgC)
                             # SeqnumOf(outbox[n][cid][i].msgC)

\* a msgC was built after a send on the same row had failed in its
\* transport and another had used up a seqnum without producing a msgC
C39_Witness ==
    /\ last.op = "send"
    /\ \E i \in DOMAIN sending[last.n] :
          /\ sending[last.n][i].cid = last.arg
          /\ sending[last.n][i].handed = <<>>
          /\ ~sending[last.n][i].fired
    /\ Len(outbox[last.n][last.arg]) = 2
    /\ SeqnumOf(outbox[last.n][last.arg][2].msgC) = 3


\* C40: the observers that receive a notice are those subscribed to the
\* notice's table when commit runs.  A call that commits queues, for every
\* table, each committed notice once per observer subscribed at that moment,
\* in subscription order, the notices written before the call (and before
\* later subscriptions) first; a call that does not commit queues nothing;
\* subscribing or unsubscribing changes neither the queued calls nor the
\* calls made; and a turn makes every queued call, whether or not its
\* observer is still subscribed
C40_ObserversFixedAtCommit ==
    [][\A n \in Nodes :
          LET old == store[n].eventual
              new == store'[n].eventual
              queued == SubSeq(new, Len(old) + 1, Len(new))
              OfTable(q, t) == SelectSeq(q, LAMBDA e : e.event.table = t)
              Pending(t) == SelectSeq(store[n].pending,
                                      LAMBDA e : e.table = t)
          IN
          /\ (last'.op \in {"subscribe", "unsubscribe"} /\ last'.n = n)
                => new = old /\ notified'[n] = notified[n]
          /\ (last'.op = "turn" /\ last'.n = n)
                => notified'[n] = notified[n] \o old /\ new = <<>>
          /\ (last'.op \in {"startInvitation", "messagesReceived"}
                 /\ last'.n = n)
                => /\ Len(new) >= Len(old)
                   /\ SubSeq(new, 1, Len(old)) = old
                   /\ notified'[n] = notified[n]
                   /\ store'[n].observers = store[n].observers
                   /\ last'.err # "" => new = old
                   /\ last'.err = "" =>
                        /\ store'[n].pending = <<>>
                        /\ \A t \in {"invitations", "addressbook"} :
                             \E q \in {OfTable(queued, t)} :
                             \E obs \in {store[n].observers[t]} :
                               IF obs = <<>> THEN q = <<>>
                               ELSE
                               /\ Len(q) % Len(obs) = 0
                               /\ Len(q) >= Len(obs) * Len(Pending(t))
                               /\ \A i \in DOMAIN q :
                                    /\ q[i].o = obs[((i - 1) % Len(obs)) + 1]
                                    /\ q[i].event
                                         = q[i - ((i - 1) % Len(obs))].event
                               /\ \A j \in DOMAIN Pending(t) :
                                    q[(j - 1) * Len(obs) + 1].event
                                        = Pending(t)[j]]_vars

\* observer 4, subscribed to the addressbook while an insert waited for its
\* commit, has just been unsubscribed and its call with that insert is still
\* queued; observer 3, subscribed after the commit, has no call with it
C40_Witness ==
    /\ last.op = "unsubscribe"
    /\ last.arg = 4
    /\ \A k \in DOMAIN store[1].observers.addressbook :
          store[1].observers.addressbook[k] # 4
    /\ \E k \in DOMAIN store[1].observers.addressbook :
          store[1].observers.addressbook[k] = 3
    /\ \E i \in DOMAIN store[1].eventual :
          /\ store[1].eventual[i].o = 4
          /\ store[1].eventual[i].event.action = "insert"
          /\ store[1].eventual[i].event.id = 1
          /\ \A j \in DOMAIN Notices(1) :
                Notices(1)[j].event = store[1].eventual[i].event
                    => Notices(1)[j].o # 3

====
